---- MODULE Spec2Model ----
(***************************************************************************)
(* A model of the product scraper of src/app.py: the /scrape route, the    *)
(* method ProductScraper.scrape_product and the extractors it calls.       *)
(*                                                                         *)
(* Texts are sequences of tokens.  Where the code works on characters (the *)
(* price regexes, the 500-character cut of the description) a token is one *)
(* character; elsewhere a token is a word or a phrase of the page.         *)
(* An optional value (an element a selector may not find, an attribute a   *)
(* tag may not carry) is a sequence of length 0 or 1.                      *)
(* A JSON value, and every value of a returned record, is a tagged record: *)
(* Str, Num, Bool, Null, List, Dict.                                       *)
(***************************************************************************)
EXTENDS Integers, Sequences, FiniteSets, TLC

VARIABLES
    web,         \* per request: the URL it posts and what the site serves for it
    pc,          \* per request: where the request is in scrape / scrape_product
    url,         \* per request: the local `url` of scrape_product
    debug_info,  \* per request: the local `debug_info`, once computed
    parsed,      \* per request: whether BeautifulSoup has parsed the body
    calls,       \* per request: the extractors invoked so far, in order
    gets,        \* per request: the number of HTTP GETs issued
    inst,        \* per request: the attributes of its ProductScraper instance
    loc,         \* per request: the values extracted so far
    outcome,     \* per request: how scrape_product ended (returned or raised)
    response,    \* per request: the HTTP response of the route
    sub          \* the submission: its form, the locals of submit, the posts made

vars == <<web, pc, url, debug_info, parsed, calls, gets, inst, loc, outcome,
          response, sub>>

\* ------------------------------------------------------------------ bounds

\* The number of /scrape requests the server may be handling at once.
NReq == 2

Reqs == 1..NReq

\* ------------------------------------------------------- generic helpers

None == << >>

Some(x) == <<x>>

IsSome(o) == Len(o) > 0

Range(s) == {s[i] : i \in 1..Len(s)}

Min(a, b) == IF a < b THEN a ELSE b

\* s[:n]
Take(s, n) == SubSeq(s, 1, Min(n, Len(s)))

\* s[n+1:]
Drop(s, n) == SubSeq(s, Min(n, Len(s)) + 1, Len(s))

RECURSIVE Concat(_)
Concat(ss) == IF ss = << >> THEN << >> ELSE Head(ss) \o Concat(Tail(ss))

\* sep.join(ss)
RECURSIVE Join(_, _)
Join(ss, sep) ==
    IF ss = << >> THEN << >>
    ELSE IF Len(ss) = 1 THEN ss[1]
    ELSE ss[1] \o sep \o Join(Tail(ss), sep)

\* ------------------------------------------------------------ JSON values

Str(s) == [t |-> "str", s |-> s]

Num(i, f) == [t |-> "num", i |-> i, f |-> f]

Bool(b) == [t |-> "bool", b |-> b]

Null == [t |-> "null"]

List(l) == [t |-> "list", l |-> l]

Dict(d) == [t |-> "dict", d |-> d]

IsStr(v) == v.t = "str"

IsList(v) == v.t = "list"

IsDict(v) == v.t = "dict"

\* key in data, for a dict
Has(v, k) == k \in DOMAIN v.d

\* ------------------------------------------------------------------ texts

\* str.lower() of a token: the tokens of the model that hold an upper-case
\* letter, each with its lower-case form; every other token is its own.
LowerPairs ==
    {<<"Robot Check", "robot check">>, <<"ROBOT CHECK", "robot check">>,
     <<"Captcha", "captcha">>, <<"CAPTCHA", "captcha">>,
     <<"Brand", "brand">>, <<"BRAND", "brand">>, <<"Weight", "weight">>,
     <<"Item", "item">>, <<"Shipping", "shipping">>, <<"Net", "net">>,
     <<"Dimensions", "dimensions">>, <<"UPC", "upc">>, <<"EAN", "ean">>,
     <<"GTIN", "gtin">>, <<"ASIN", "asin">>, <<"ISBN", "isbn">>,
     <<"By", "by">>, <<"Visit the", "visit the">>, <<"Store", "store">>,
     <<"Brand:", "brand:">>, <<"OZ", "oz">>, <<"Fl", "fl">>, <<"Oz", "oz">>,
     <<"LB", "lb">>, <<"ML", "ml">>, <<"mL", "ml">>, <<"L", "l">>,
     <<"KG", "kg">>, <<"G", "g">>, <<"IN", "in">>, <<"CM", "cm">>,
     <<"X", "x">>, <<"H", "h">>, <<"W", "w">>, <<"Length", "length">>,
     <<"Width", "width">>, <<"Height", "height">>,
     <<"B00ABC1234", "b00abc1234">>}

Lower(tok) ==
    IF \E p \in LowerPairs : p[1] = tok
    THEN (CHOOSE p \in LowerPairs : p[1] = tok)[2]
    ELSE tok

\* text.lower()
LowerText(text) == [i \in 1..Len(text) |-> Lower(text[i])]

\* needle in text, for a needle that is one token
Contains(text, needle) == \E i \in 1..Len(text) : text[i] = needle

\* len(text) in characters, for a text of words joined by single spaces.
RECURSIVE CharLen(_)
CharLen(text) ==
    IF text = << >> THEN 0
    ELSE Len(Head(text)) + (IF Len(text) > 1 THEN 1 ELSE 0) + CharLen(Tail(text))

\* The first index of tok in text, 0 when absent.
IndexOf(text, tok) ==
    IF Contains(text, tok)
    THEN CHOOSE i \in 1..Len(text) :
            text[i] = tok /\ \A j \in 1..(i - 1) : text[j] # tok
    ELSE 0

\* ------------------------------------------------- patterns over tokens

\* A regular expression of the code, read over tokens: a sequence of items,
\* each a class of lower-case tokens, optional or not, in capture group grp
\* (0: in no group); an item of class {} that is optional stands for `.*`.
\* Every regex it models is compiled with re.IGNORECASE.
Item(cls, opt, grp) == [cls |-> cls, opt |-> opt, grp |-> grp]

AnyRun == Item({}, TRUE, 0)

\* The index after the match of pat that starts at text[i]; 0 when there is
\* none.  `.*` takes the longest run the rest of the pattern allows.
RECURSIVE MatchEnd(_, _, _)
MatchEnd(text, i, pat) ==
    IF pat = << >> THEN i
    ELSE IF Head(pat) = AnyRun
         THEN LET ks == {k \in i..(Len(text) + 1) : MatchEnd(text, k, Tail(pat)) # 0}
              IN  IF ks = {} THEN 0
                  ELSE MatchEnd(text, CHOOSE k \in ks : \A j \in ks : j <= k, Tail(pat))
    ELSE IF i <= Len(text) /\ Lower(text[i]) \in Head(pat).cls
         THEN MatchEnd(text, i + 1, Tail(pat))
         ELSE IF Head(pat).opt THEN MatchEnd(text, i, Tail(pat)) ELSE 0

\* match.group(g) of the match of pat that starts at text[i]; empty when the
\* group took part in no match.
RECURSIVE MatchGroup(_, _, _, _)
MatchGroup(text, i, pat, g) ==
    IF pat = << >> THEN << >>
    ELSE IF Head(pat) = AnyRun
         THEN LET ks == {k \in i..(Len(text) + 1) : MatchEnd(text, k, Tail(pat)) # 0}
              IN  MatchGroup(text, CHOOSE k \in ks : \A j \in ks : j <= k, Tail(pat), g)
    ELSE IF i <= Len(text) /\ Lower(text[i]) \in Head(pat).cls
         THEN (IF Head(pat).grp = g THEN <<text[i]>> ELSE << >>)
                 \o MatchGroup(text, i + 1, Tail(pat), g)
         ELSE MatchGroup(text, i, Tail(pat), g)

\* re.search(regex, text) for a regex given by the token patterns of its
\* alternatives: <<i, pat>> for the leftmost start i and the first
\* alternative pat that matches there; << >> when nothing matches.
Search(text, alts) ==
    LET hits == {i \in 1..Len(text) :
                    \E a \in 1..Len(alts) : MatchEnd(text, i, alts[a]) # 0}
        i0 == CHOOSE i \in hits : \A j \in hits : i <= j
        as == {a \in 1..Len(alts) : MatchEnd(text, i0, alts[a]) # 0}
    IN  IF hits = {} THEN << >>
        ELSE <<i0, alts[CHOOSE a \in as : \A b \in as : a <= b]>>

\* match.group(g) and match.group(0) of a successful Search.
Group(text, m, g) == MatchGroup(text, m[1], m[2], g)

Group0(text, m) == SubSeq(text, m[1], MatchEnd(text, m[1], m[2]) - 1)

\* -------------------------------------------------------------- sentinels

NameNotFound == <<"Product name not found">>

DescriptionNotFound == <<"Description not found">>

PriceNotFound == <<"Price not found">>

WeightNotFound == <<"Weight not found">>

DimensionsNotFound == <<"Dimensions not found">>

BlockedDescription ==
    <<"Amazon blocked automated access. Please enter details manually.">>

BlockedMessage ==
    <<"Amazon detected automated access. Please enter product details manually.">>

TimeoutDescription ==
    <<"Request timed out. The site may be slow or blocking automated access.">>

SentinelDimensions ==
    Dict([raw |-> Str(DimensionsNotFound), length |-> Null, width |-> Null,
          height |-> Null, unit |-> Null])

\* ------------------------------------------------------------ extract_name

\* len(name) > 5 in extract_name
MinNameLen == 5

\* re.sub(r'\s*-\s*Amazon\.ca.*$', '', t): the text up to the first "-" that
\* "Amazon.ca" follows.
StripAmazonSuffix(t) ==
    LET hits == {i \in 1..(Len(t) - 1) : t[i] = "-" /\ t[i + 1] = "Amazon.ca"}
    IN  IF hits = {} THEN t
        ELSE Take(t, (CHOOSE i \in hits : \A j \in hits : i <= j) - 1)

\* re.sub(r'\s*\|\s*.*$', '', t): the text up to the first "|".
StripPipeSuffix(t) ==
    IF Contains(t, "|") THEN Take(t, IndexOf(t, "|") - 1) ELSE t

\* The first element text a name selector gives that is long enough.
RECURSIVE FirstName(_)
FirstName(els) ==
    IF els = << >> THEN None
    ELSE IF Head(els) # << >> /\ CharLen(Head(els)) > MinNameLen
         THEN Some(Head(els))
         ELSE FirstName(Tail(els))

extract_name(doc) ==
    IF IsSome(FirstName(doc.nameEls)) THEN FirstName(doc.nameEls)[1]
    ELSE IF IsSome(doc.title)
              /\ StripPipeSuffix(StripAmazonSuffix(doc.title[1])) # << >>
         THEN StripPipeSuffix(StripAmazonSuffix(doc.title[1]))
         ELSE NameNotFound

\* ----------------------------------------------------------- extract_brand

\* len(brand_text) < 50 in extract_brand
MaxBrandLen == 50

\* The brand a metadata object with a 'brand' key gives: the 'name' of a
\* nested object, or a plain string; anything else gives nothing.
BrandOfObject(obj) ==
    LET brand_data == obj.d["brand"]
    IN  IF IsDict(brand_data) /\ Has(brand_data, "name")
        THEN Some(brand_data.d["name"])
        ELSE IF IsStr(brand_data) THEN Some(brand_data) ELSE None

RECURSIVE BrandOfItems(_)
BrandOfItems(items) ==
    IF items = << >> THEN None
    ELSE IF IsDict(Head(items)) /\ Has(Head(items), "brand")
              /\ IsSome(BrandOfObject(Head(items)))
         THEN BrandOfObject(Head(items))
         ELSE BrandOfItems(Tail(items))

\* The loop over the ld+json scripts; a script that does not parse is passed.
RECURSIVE BrandFromScripts(_)
BrandFromScripts(scripts) ==
    IF scripts = << >> THEN None
    ELSE LET data == Head(scripts)
             here == IF ~IsSome(data) THEN None
                     ELSE IF IsDict(data[1])
                          THEN (IF Has(data[1], "brand")
                                THEN BrandOfObject(data[1]) ELSE None)
                     ELSE IF IsList(data[1]) THEN BrandOfItems(data[1].l)
                     ELSE None
         IN  IF IsSome(here) THEN here ELSE BrandFromScripts(Tail(scripts))

\* re.sub(r'^(Brand:|by|Visit the|Store)', '', text, flags=re.IGNORECASE).strip()
StripBrandFiller(text) ==
    IF text # << >> /\ Lower(text[1]) \in {"brand:", "by", "visit the", "store"}
    THEN Tail(text) ELSE text

RECURSIVE BrandFromSelectors(_)
BrandFromSelectors(els) ==
    IF els = << >> THEN None
    ELSE LET brand_text == StripBrandFiller(Head(els))
         IN  IF brand_text # << >> /\ CharLen(brand_text) < MaxBrandLen
                  /\ brand_text \notin {<<"Unknown">>, <<"N/A">>}
             THEN Some(Str(brand_text))
             ELSE BrandFromSelectors(Tail(els))

\* text.split(':')[1].strip(): the tokens between the first and the second
\* ":"; None when the text holds no ":".
SecondPart(text) ==
    IF ~Contains(text, ":") THEN None
    ELSE LET rest == Drop(text, IndexOf(text, ":"))
         IN  Some(IF Contains(rest, ":") THEN Take(rest, IndexOf(rest, ":") - 1)
                  ELSE rest)

RECURSIVE BrandFromDetails(_)
BrandFromDetails(rows) ==
    IF rows = << >> THEN None
    ELSE LET text == Head(rows)
             parts == SecondPart(text)
         IN  IF Contains(LowerText(text), "brand") /\ IsSome(parts)
                  /\ parts[1] # << >> /\ CharLen(parts[1]) < MaxBrandLen
             THEN Some(Str(parts[1]))
             ELSE BrandFromDetails(Tail(rows))

\* re.search(r'Brand[:\s]+([^\n\r]+)', spec_text, re.IGNORECASE): what follows
\* the first "brand" and its colons, up to the end of the line.
BrandLine(text) ==
    LET low == LowerText(text)
        i == IndexOf(low, "brand")
        rest == Drop(text, i)
        j == IF \E k \in 1..Len(rest) : rest[k] \notin {":", "\n"}
             THEN CHOOSE k \in 1..Len(rest) :
                     /\ rest[k] \notin {":", "\n"}
                     /\ \A m \in 1..(k - 1) : rest[m] \in {":", "\n"}
             ELSE 0
        line == Drop(rest, j - 1)
        cut == IF Contains(line, "\n") THEN Take(line, IndexOf(line, "\n") - 1)
               ELSE line
    IN  IF i = 0 \/ j = 0 THEN None ELSE Some(cut)

RECURSIVE BrandFromSpecs(_)
BrandFromSpecs(specs) ==
    IF specs = << >> THEN None
    ELSE LET m == BrandLine(Head(specs))
         IN  IF IsSome(m) /\ m[1] # << >> /\ CharLen(m[1]) < MaxBrandLen
             THEN Some(Str(m[1]))
             ELSE BrandFromSpecs(Tail(specs))

\* first_word[0].isupper(), over the words of the model
Capitalized ==
    {"Acme", "New", "The", "Premium", "Hand", "Soap", "Widget", "Pro", "Rug",
     "HP", "Zen", "Supercalifragilisti", "Supercalifragilistic"}

non_brand_words ==
    {"New", "The", "Premium", "Professional", "Original", "Genuine", "Authentic"}

\* The name fallback as it would be with the lower length bound off by one.
BrandFromNameLonger(product_name) ==
    IF product_name # << >> /\ product_name # NameNotFound
         /\ Len(product_name[1]) > 3 /\ Len(product_name[1]) < 20
         /\ product_name[1] \in Capitalized
         /\ product_name[1] \notin non_brand_words
    THEN Some(Str(<<product_name[1]>>))
    ELSE None

BrandFromName(product_name) ==
    IF product_name # << >> /\ product_name # NameNotFound
         /\ Len(product_name[1]) > 2 /\ Len(product_name[1]) < 20
         /\ product_name[1] \in Capitalized
         /\ product_name[1] \notin non_brand_words
    THEN Some(Str(<<product_name[1]>>))
    ELSE None

extract_brand(doc, product_name) ==
    IF IsSome(BrandFromScripts(doc.ld)) THEN BrandFromScripts(doc.ld)[1]
    ELSE IF IsSome(BrandFromSelectors(doc.brandEls))
         THEN BrandFromSelectors(doc.brandEls)[1]
    ELSE IF IsSome(BrandFromDetails(doc.rows \o doc.facts))
         THEN BrandFromDetails(doc.rows \o doc.facts)[1]
    ELSE IF IsSome(BrandFromSpecs(doc.specs)) THEN BrandFromSpecs(doc.specs)[1]
    ELSE IF IsSome(BrandFromName(product_name)) THEN BrandFromName(product_name)[1]
    ELSE Str(<< >>)

\* ------------------------------------------------------------ extract_gtin

\* The digits of n, most significant first.
RECURSIVE Digits(_)
Digits(n) ==
    LET d == <<"0", "1", "2", "3", "4", "5", "6", "7", "8", "9">>
    IN  IF n < 10 THEN <<d[n + 1]>> ELSE Digits(n \div 10) \o <<d[(n % 10) + 1]>>

\* The fraction digits of a float as Python prints them: no trailing zero,
\* but one digit at least.
RECURSIVE FloatFraction(_)
FloatFraction(f) ==
    IF Len(f) > 1 /\ f[Len(f)] = "0" THEN FloatFraction(Take(f, Len(f) - 1))
    ELSE f

\* str(v) of a JSON value as json.loads built it.
PyStr(v) ==
    CASE v.t = "str" -> v.s
      [] v.t = "num" -> Digits(v.i)
                           \o (IF v.f = << >> THEN << >>
                               ELSE <<".">> \o FloatFraction(v.f))
      [] v.t = "bool" -> IF v.b THEN <<"True">> ELSE <<"False">>
      [] v.t = "null" -> <<"None">>
      [] v.t = "list" -> <<"[...]">>
      [] v.t = "dict" -> <<"{...}">>

gtin_keys == <<"gtin", "gtin13", "gtin12", "gtin8", "isbn", "ean", "upc">>

\* The value of the first of gtin_keys the object has, as a string.
GtinOfObject(obj) ==
    LET hits == {k \in 1..Len(gtin_keys) : Has(obj, gtin_keys[k])}
    IN  IF hits = {} THEN None
        ELSE Some(PyStr(obj.d[gtin_keys[CHOOSE k \in hits :
                                          \A j \in hits : k <= j]]))

RECURSIVE GtinOfItems(_)
GtinOfItems(items) ==
    IF items = << >> THEN None
    ELSE IF IsDict(Head(items)) /\ IsSome(GtinOfObject(Head(items)))
         THEN GtinOfObject(Head(items))
         ELSE GtinOfItems(Tail(items))

RECURSIVE GtinFromScripts(_)
GtinFromScripts(scripts) ==
    IF scripts = << >> THEN None
    ELSE LET data == Head(scripts)
             here ==
                 IF ~IsSome(data) THEN None
                 ELSE IF IsDict(data[1])
                      THEN (IF IsSome(GtinOfObject(data[1]))
                            THEN GtinOfObject(data[1])
                            ELSE IF Has(data[1], "offers")
                                      /\ IsDict(data[1].d["offers"])
                                 THEN GtinOfObject(data[1].d["offers"])
                                 ELSE None)
                 ELSE IF IsList(data[1]) THEN GtinOfItems(data[1].l)
                 ELSE None
         IN  IF IsSome(here) THEN here ELSE GtinFromScripts(Tail(scripts))

\* The runs of digits and the product codes of the model's pages.
CodeTokens == {"012345678905", "4006381333931", "12345678", "0306406152",
               "b00abc1234"}

CodesOfLen(lens) == {c \in CodeTokens : Len(c) \in lens}

DigitCodes == CodeTokens \ {"b00abc1234"}

\* UPC[:\s]+(\d{12}), EAN[:\s]+(\d{13}), GTIN[:\s]+(\d{8,14}),
\* ISBN-13[:\s]+(\d{13}), ISBN-10[:\s]+(\d{10}), ASIN[:\s]+([A-Z0-9]{10}),
\* \b(\d{12,13})\b
gtin_patterns ==
    <<  << <<Item({"upc"}, FALSE, 0), Item({":"}, TRUE, 0),
             Item(CodesOfLen({12}) \cap DigitCodes, FALSE, 1)>> >>,
        << <<Item({"ean"}, FALSE, 0), Item({":"}, TRUE, 0),
             Item(CodesOfLen({13}) \cap DigitCodes, FALSE, 1)>> >>,
        << <<Item({"gtin"}, FALSE, 0), Item({":"}, TRUE, 0),
             Item(CodesOfLen(8..14) \cap DigitCodes, FALSE, 1)>> >>,
        << <<Item({"isbn-13"}, FALSE, 0), Item({":"}, TRUE, 0),
             Item(CodesOfLen({13}) \cap DigitCodes, FALSE, 1)>> >>,
        << <<Item({"isbn-10"}, FALSE, 0), Item({":"}, TRUE, 0),
             Item(CodesOfLen({10}) \cap DigitCodes, FALSE, 1)>> >>,
        << <<Item({"asin"}, FALSE, 0), Item({":"}, TRUE, 0),
             Item(CodesOfLen({10}), FALSE, 1)>> >>,
        << <<Item(CodesOfLen({12, 13}) \cap DigitCodes, FALSE, 1)>> >>  >>

\* The group of the first of pats that matches text.
RECURSIVE FirstGroup1(_, _)
FirstGroup1(text, pats) ==
    IF pats = << >> THEN None
    ELSE IF Search(text, Head(pats)) # << >>
         THEN Some(Group(text, Search(text, Head(pats)), 1))
         ELSE FirstGroup1(text, Tail(pats))

RECURSIVE GtinFromSelectors(_)
GtinFromSelectors(els) ==
    IF els = << >> THEN None
    ELSE IF IsSome(FirstGroup1(Head(els), gtin_patterns))
         THEN FirstGroup1(Head(els), gtin_patterns)
         ELSE GtinFromSelectors(Tail(els))

\* re.sub(r'[^\w\d]', '', value) leaves the code tokens and drops the rest.
RECURSIVE CleanCode(_)
CleanCode(text) ==
    IF text = << >> THEN << >>
    ELSE (IF Lower(Head(text)) \in CodeTokens THEN <<Head(text)>> ELSE << >>)
            \o CleanCode(Tail(text))

RECURSIVE GtinFromBullets(_)
GtinFromBullets(bullets) ==
    IF bullets = << >> THEN None
    ELSE LET text == Head(bullets)
             parts == SecondPart(text)
             value == IF IsSome(parts) THEN CleanCode(parts[1]) ELSE << >>
         IN  IF (\E term \in {"ASIN", "UPC", "EAN", "ISBN"} : Contains(text, term))
                  /\ Len(value) = 1 /\ Len(value[1]) \in {10, 12, 13}
             THEN Some(value)
             ELSE GtinFromBullets(Tail(bullets))

extract_gtin(doc) ==
    IF IsSome(GtinFromScripts(doc.ld)) THEN GtinFromScripts(doc.ld)[1]
    ELSE IF IsSome(GtinFromSelectors(doc.gtinEls \o doc.facts
                                       \o (IF doc.rows = << >> THEN << >>
                                           ELSE <<Concat(doc.rows)>>)
                                       \o doc.bullets))
         THEN GtinFromSelectors(doc.gtinEls \o doc.facts
                                  \o (IF doc.rows = << >> THEN << >>
                                      ELSE <<Concat(doc.rows)>>)
                                  \o doc.bullets)[1]
    ELSE IF IsSome(GtinFromBullets(doc.bullets)) THEN GtinFromBullets(doc.bullets)[1]
    ELSE << >>

\* ----------------------------------------------------- extract_description

\* description[:500]
MaxDescLen == 500

\* bullets[:5]
MaxBullets == 5

IframePlaceholder == <<"Full description available in item listing">>

\* What the first description element that decides gives: a 'ul' with items
\* gives its first items joined by spaces, an 'iframe' with a src the
\* placeholder, any other element its text; a 'ul' without items decides
\* nothing and the next selector is tried.
RECURSIVE DescriptionFromSelectors(_)
DescriptionFromSelectors(els) ==
    IF els = << >> THEN None
    ELSE LET element == Head(els)
         IN  IF element.tag = "ul"
             THEN (IF element.items # << >>
                   THEN Some(Take(Join(Take(element.items, MaxBullets), <<" ">>),
                                  MaxDescLen))
                   ELSE DescriptionFromSelectors(Tail(els)))
             ELSE IF element.tag = "iframe" /\ element.src
                  THEN Some(IframePlaceholder)
                  ELSE Some(Take(element.text, MaxDescLen))

\* The content of a meta tag as it would be without the slice.
MetaContentWhole(meta) == IF IsSome(meta.content) THEN meta.content[1] ELSE << >>

\* meta.get('content', '')[:500]
MetaContent(meta) == Take(IF IsSome(meta.content) THEN meta.content[1] ELSE << >>,
                          MaxDescLen)

extract_description(doc) ==
    IF IsSome(DescriptionFromSelectors(doc.descEls))
    THEN DescriptionFromSelectors(doc.descEls)[1]
    ELSE IF IsSome(doc.metaDesc) THEN MetaContent(doc.metaDesc[1])
    ELSE IF IsSome(doc.ogDesc) THEN MetaContent(doc.ogDesc[1])
    ELSE DescriptionNotFound

\* ---------------------------------------------------------- extract_images

\* unique_images[:10]
MaxImages == 10

\* A URL is a sequence of tokens: a scheme ("https://", "http://", "data:") or
\* the protocol-relative "//" and a host, then path tokens, then an extension.
Schemes == {"https://", "http://"}

\* The path tokens that start at the root of the host.
RootedPaths == {"/img/a", "/img/b", "/img/c", "/img/d", "/img/e", "/img/f",
                "/img/g", "/img/h", "/img/i", "/img/j", "/img/k", "/dp/1"}

\* The directory of a path of the model: the path up to its last "/".
PathDir(path) == IF path = "/dp/1" THEN "/dp/" ELSE "/"

StartsWith(u, tok) == u # << >> /\ u[1] = tok

EndsWith(u, tok) == u # << >> /\ u[Len(u)] = tok

IsAbsolute(u) == u # << >> /\ u[1] \in Schemes

\* urllib.parse.urljoin(base_url, src) for an absolute base_url: a URL with a
\* scheme is kept, a rooted path replaces the path of the base, any other
\* path replaces the last segment of the path of the base.
urljoin(base_url, src) ==
    IF StartsWith(src, "data:") \/ IsAbsolute(src) THEN src
    ELSE IF StartsWith(src, "//") THEN <<base_url[1]>> \o Tail(src)
    ELSE IF src # << >> /\ src[1] \in RootedPaths
         THEN Take(base_url, 2) \o src
         ELSE Take(base_url, 2) \o <<PathDir(base_url[3])>> \o src

\* needle in url: the needles each host token of the model holds.
HostParts(host) ==
    CASE host = "www.amazon.ca" -> {"amazon", "amazon.ca"}
      [] host = "www.amazon.com" -> {"amazon", "amazon.com"}
      [] host = "www.amazon.co.uk" -> {"amazon", "amazon.co.uk"}
      [] host = "www.amazon.de" -> {"amazon", "amazon.de"}
      [] host = "www.amazon.fr" -> {"amazon", "amazon.fr"}
      [] host = "www.amazon.es" -> {"amazon", "amazon.es"}
      [] host = "www.amazon.it" -> {"amazon", "amazon.it"}
      [] host = "www.amazon.co.jp" -> {"amazon", "amazon.co.jp"}
      [] host = "www.amazon.in" -> {"amazon", "amazon.in"}
      [] host = "www.amazon.com.au" -> {"amazon", "amazon.com", "amazon.com.au"}
      [] host = "www.walmart.ca" -> {"walmart.ca"}
      [] host = "www.ebay.ca" -> {"ebay.ca"}
      [] OTHER -> {}

UrlContains(u, needle) == \E i \in 1..Len(u) : needle \in HostParts(u[i])

amazon_attrs == <<"src", "data-src", "data-old-hires", "data-a-dynamic-image">>

general_attrs ==
    <<"src", "data-src", "data-lazy-src", "data-original", "data-zoom-image">>

\* element.get(attr) is truthy.  An attribute value is a URL, except that of
\* data-a-dynamic-image: <<[json |-> "object", keys |-> the keys of the JSON
\* object, URLs]>>, or json |-> "array" or "invalid" for another text.
HasAttr(element, attr) == attr \in DOMAIN element /\ element[attr] # << >>

\* The src the Amazon branch takes from an element, None when it takes none:
\* the first attribute present decides, except that a data-a-dynamic-image
\* gives the first key of its JSON object and nothing when it is no such
\* object (the exception is passed).
RECURSIVE AmazonSrc(_, _)
AmazonSrc(element, attrs) ==
    IF attrs = << >> THEN None
    ELSE IF HasAttr(element, Head(attrs))
         THEN (IF Head(attrs) = "data-a-dynamic-image"
               THEN (IF element[Head(attrs)][1].json = "object"
                          /\ element[Head(attrs)][1].keys # << >>
                     THEN Some(element[Head(attrs)][1].keys[1])
                     ELSE AmazonSrc(element, Tail(attrs)))
               ELSE Some(element[Head(attrs)]))
         ELSE AmazonSrc(element, Tail(attrs))

\* src = element.get('src') or element.get('data-src') or ...
RECURSIVE GeneralSrc(_, _)
GeneralSrc(element, attrs) ==
    IF attrs = << >> THEN None
    ELSE IF HasAttr(element, Head(attrs)) THEN Some(element[Head(attrs)])
         ELSE GeneralSrc(element, Tail(attrs))

\* The list after one element: its URL is appended when it has a src that
\* is no data: URL, is not in the list yet and does not end in .gif.
AddImage(images, base_url, src) ==
    IF ~IsSome(src) \/ StartsWith(src[1], "data:") THEN images
    ELSE LET coerced == IF StartsWith(src[1], "//")
                        THEN <<"https:" \o "//">> \o Tail(src[1])
                        ELSE src[1]
             absolute_url == Str(urljoin(base_url, coerced))
         IN  IF ~Contains(images, absolute_url)
                  /\ ~EndsWith(absolute_url.s, ".gif")
             THEN Append(images, absolute_url)
             ELSE images

RECURSIVE CollectImages(_, _, _, _)
CollectImages(images, els, base_url, amazon) ==
    IF els = << >> THEN images
    ELSE CollectImages(
            AddImage(images, base_url,
                     IF amazon THEN AmazonSrc(Head(els), amazon_attrs)
                     ELSE GeneralSrc(Head(els), general_attrs)),
            Tail(els), base_url, amazon)

\* The 'image' values of the ld+json scripts that are objects: a string is
\* appended, the items of a list are appended as they are.
RECURSIVE ImagesFromScripts(_)
ImagesFromScripts(scripts) ==
    IF scripts = << >> THEN << >>
    ELSE LET data == Head(scripts)
             here == IF IsSome(data) /\ IsDict(data[1]) /\ Has(data[1], "image")
                     THEN (IF IsStr(data[1].d["image"]) THEN <<data[1].d["image"]>>
                           ELSE IF IsList(data[1].d["image"])
                                THEN data[1].d["image"].l
                                ELSE << >>)
                     ELSE << >>
         IN  here \o ImagesFromScripts(Tail(scripts))

\* hash(v) raises TypeError
Unhashable(v) == v.t \in {"list", "dict"}

\* The list without duplicates as it would be if the last occurrence of each
\* item were the one kept.
RECURSIVE UniqueLastSeen(_, _)
UniqueLastSeen(images, seen) ==
    IF images = << >> THEN << >>
    ELSE IF Contains(Tail(images), Head(images))
         THEN UniqueLastSeen(Tail(images), seen)
         ELSE <<Head(images)>> \o UniqueLastSeen(Tail(images), seen)

\* Remove duplicates while preserving order.
RECURSIVE Unique(_, _)
Unique(images, seen) ==
    IF images = << >> THEN << >>
    ELSE IF Head(images) \in seen THEN Unique(Tail(images), seen)
         ELSE <<Head(images)>> \o Unique(Tail(images), seen \cup {Head(images)})

\* The result of extract_images: the list it returns, or the TypeError that
\* `img not in seen` raises on an item that cannot be hashed.
extract_images(doc, base_url) ==
    LET images == CollectImages(<< >>, doc.imgs, base_url,
                                UrlContains(base_url, "amazon"))
                     \o ImagesFromScripts(doc.ld)
    IN  IF \E i \in 1..Len(images) : Unhashable(images[i])
        THEN [raised |-> TRUE, error |-> "unhashable type"]
        ELSE [raised |-> FALSE, value |-> Take(Unique(images, {}), MaxImages)]

\* ----------------------------------------------------------- extract_price

DigitChars == {"0", "1", "2", "3", "4", "5", "6", "7", "8", "9"}

UpperChars == {"U", "S", "D", "C", "A", "N", "G", "B", "P"}

\* [\$£€¥₹]
SymbolChars == {"$", "£", "€", "¥", "₹"}

\* str.isdigit(): not empty and digits only
isdigit(text) == text # << >> /\ \A i \in 1..Len(text) : text[i] \in DigitChars

\* text.replace(c, '')
RECURSIVE Remove(_, _)
Remove(text, c) ==
    IF text = << >> THEN << >>
    ELSE (IF Head(text) = c THEN << >> ELSE <<Head(text)>>) \o Remove(Tail(text), c)

\* The text without its leading spaces.
RECURSIVE LStrip(_)
LStrip(text) ==
    IF text # << >> /\ Head(text) = " " THEN LStrip(Tail(text)) ELSE text

\* if '.' not in price and price.isdigit(): price = price + '.00'
WithDecimals(price) ==
    IF ~Contains(price, ".") /\ isdigit(price) THEN price \o <<".", "0", "0">>
    ELSE price

\* What one metadata object gives: "skip" when the test of its offers raises
\* (offers is null, a number or a boolean) and the script is passed, the
\* price of offers or its own price when it has one, "none" otherwise.
\* strict is TRUE for the items of a list, where offers must be an object.
PriceOfObject(obj, strict) ==
    IF Has(obj, "offers") /\ ~strict /\ obj.d["offers"].t \in {"null", "num", "bool"}
    THEN [k |-> "skip"]
    ELSE IF Has(obj, "offers") /\ IsDict(obj.d["offers"])
              /\ Has(obj.d["offers"], "price")
         THEN [k |-> "price", v |-> WithDecimals(PyStr(obj.d["offers"].d["price"]))]
    ELSE IF Has(obj, "price")
         THEN [k |-> "price", v |-> WithDecimals(PyStr(obj.d["price"]))]
    ELSE [k |-> "none"]

RECURSIVE PriceOfItems(_)
PriceOfItems(items) ==
    IF items = << >> THEN None
    ELSE IF IsDict(Head(items)) /\ PriceOfObject(Head(items), TRUE).k = "price"
         THEN Some(PriceOfObject(Head(items), TRUE).v)
         ELSE PriceOfItems(Tail(items))

RECURSIVE PriceFromScripts(_)
PriceFromScripts(scripts) ==
    IF scripts = << >> THEN None
    ELSE LET data == Head(scripts)
             here == IF ~IsSome(data) THEN None
                     ELSE IF IsDict(data[1])
                          THEN (IF PriceOfObject(data[1], FALSE).k = "price"
                                THEN Some(PriceOfObject(data[1], FALSE).v)
                                ELSE None)
                     ELSE IF IsList(data[1]) THEN PriceOfItems(data[1].l)
                     ELSE None
         IN  IF IsSome(here) THEN here ELSE PriceFromScripts(Tail(scripts))

\* re.sub(r'^[A-Z]{3}\s*', '', price_text)
StripCurrencyCode(text) ==
    IF Len(text) >= 3 /\ \A i \in 1..3 : text[i] \in UpperChars
    THEN LStrip(Drop(text, 3)) ELSE text

\* re.sub(r'[\$£€¥₹]\s*', '', price_text)
RECURSIVE StripSymbols(_)
StripSymbols(text) ==
    IF text = << >> THEN << >>
    ELSE IF Head(text) \in SymbolChars THEN StripSymbols(LStrip(Tail(text)))
         ELSE <<Head(text)>> \o StripSymbols(Tail(text))

\* The number of digits at the head of text, n at most.
RECURSIVE DigitRun(_, _)
DigitRun(text, n) ==
    IF n > 0 /\ text # << >> /\ Head(text) \in DigitChars
    THEN 1 + DigitRun(Tail(text), n - 1) ELSE 0

\* The length of the match of (?:,\d{3})* at the head of text.
RECURSIVE ThousandsRun(_)
ThousandsRun(text) ==
    IF Len(text) >= 4 /\ text[1] = "," /\ DigitRun(Tail(text), 3) = 3
    THEN 4 + ThousandsRun(Drop(text, 4)) ELSE 0

\* The text from its first digit on; the text has a digit.
FromFirstDigit(text) ==
    Drop(text, (CHOOSE k \in 1..Len(text) :
                   text[k] \in DigitChars
                   /\ \A j \in 1..(k - 1) : text[j] \notin DigitChars) - 1)

\* re.search(r'(\d{1,3}(?:,\d{3})*(?:\.\d{2})?)', text): the match starts at
\* the first digit of the text and every quantifier takes all it can.  (The
\* local functions only have the text and each length computed once.)
PriceMatch(text) ==
    LET Match[t \in {text}] ==
            IF \A i \in 1..Len(t) : t[i] \notin DigitChars THEN None
            ELSE LET At[from \in {FromFirstDigit(t)}] ==
                         LET Fraction[n2 \in {DigitRun(from, 3)
                                                + ThousandsRun(Drop(from,
                                                      DigitRun(from, 3)))}] ==
                                 IF Len(from) >= n2 + 3 /\ from[n2 + 1] = "."
                                      /\ DigitRun(Drop(from, n2 + 1), 2) = 2
                                 THEN Take(from, n2 + 3) ELSE Take(from, n2)
                         IN  Fraction[DigitRun(from, 3)
                                       + ThousandsRun(Drop(from, DigitRun(from, 3)))]
                 IN  Some(At[FromFirstDigit(t)])
    IN  Match[text]

\* The number of digits at the head of text.
RECURSIVE AllDigitRun(_)
AllDigitRun(text) ==
    IF text # << >> /\ Head(text) \in DigitChars THEN 1 + AllDigitRun(Tail(text))
    ELSE 0

\* re.search(r'(\d{1,3}(?:,\d{3})*\.?\d*)', parent_text)
ParentPriceMatch(text) ==
    IF \A i \in 1..Len(text) : text[i] \notin DigitChars THEN None
    ELSE LET from == FromFirstDigit(text)
             n1 == DigitRun(from, 3)
             n2 == n1 + ThousandsRun(Drop(from, n1))
             n3 == IF Len(from) > n2 /\ from[n2 + 1] = "." THEN n2 + 1 ELSE n2
             n4 == n3 + AllDigitRun(Drop(from, n3))
         IN  Some(Take(from, n4))

\* What one element a price selector matched gives: a meta tag its content
\* when that is digits, commas and periods, any other element the match of
\* the price pattern in its text; None when it gives nothing.
PriceOfElement(element) ==
    IF element.tag = "meta"
    THEN LET price == IF IsSome(element.content) THEN element.content[1] ELSE << >>
         IN  IF price # << >> /\ isdigit(Remove(Remove(price, "."), ","))
             THEN Some(Remove(price, ",")) ELSE None
    ELSE LET price_match == PriceMatch(StripSymbols(StripCurrencyCode(element.text)))
         IN  IF IsSome(price_match)
             THEN Some(LET price == Remove(price_match[1], ",")
                       IN  IF ~Contains(price, ".") THEN price \o <<".", "0", "0">>
                           ELSE price)
             ELSE None

RECURSIVE PriceFromSelectors(_)
PriceFromSelectors(els) ==
    IF els = << >> THEN None
    ELSE IF IsSome(PriceOfElement(Head(els))) THEN PriceOfElement(Head(els))
         ELSE PriceFromSelectors(Tail(els))

\* text.rstrip('.')
RECURSIVE RStripDot(_)
RStripDot(text) ==
    IF text # << >> /\ text[Len(text)] = "." THEN RStripDot(Take(text, Len(text) - 1))
    ELSE text

\* The whole + fraction approach on span.a-price-whole.
PriceFromWhole(doc) ==
    IF ~IsSome(doc.priceWhole) THEN None
    ELSE LET whole_text == RStripDot(doc.priceWhole[1].text)
             parent_text == doc.priceWhole[1].text \o doc.priceWhole[1].siblings
             price_match == ParentPriceMatch(parent_text)
         IN  IF IsSome(doc.priceFraction)
             THEN Some(whole_text \o <<".">> \o doc.priceFraction[1])
             ELSE IF IsSome(price_match)
                  THEN Some(LET price == Remove(price_match[1], ",")
                            IN  IF ~Contains(price, ".")
                                THEN price \o <<".", "0", "0">> ELSE price)
                  ELSE Some(whole_text \o <<".", "0", "0">>)

\* The elements the price selectors match, in the order of the selector
\* list: span.a-price-whole is its second selector.
PriceElements(doc) ==
    doc.priceApex
       \o (IF IsSome(doc.priceWhole)
           THEN <<[tag |-> "span", content |-> None, text |-> doc.priceWhole[1].text]>>
           ELSE << >>)
       \o doc.priceEls

extract_price(doc) ==
    IF IsSome(PriceFromScripts(doc.ld)) THEN PriceFromScripts(doc.ld)[1]
    ELSE IF IsSome(PriceFromSelectors(PriceElements(doc)))
         THEN PriceFromSelectors(PriceElements(doc))[1]
    ELSE IF IsSome(PriceFromWhole(doc)) THEN PriceFromWhole(doc)[1]
    ELSE PriceNotFound

\* -------------------------------------------------------- extract_currency

\* The Amazon domains of the first table, in the order of the elif chain.
amazon_currencies ==
    <<  <<{"amazon.ca"}, "CAD">>, <<{"amazon.com"}, "USD">>,
        <<{"amazon.co.uk"}, "GBP">>,
        <<{"amazon.de", "amazon.fr", "amazon.es", "amazon.it"}, "EUR">>,
        <<{"amazon.co.jp"}, "JPY">>, <<{"amazon.in"}, "INR">>,
        <<{"amazon.com.au"}, "AUD">>  >>

RECURSIVE CurrencyOfDomain(_, _)
CurrencyOfDomain(u, table) ==
    IF table = << >> THEN None
    ELSE IF \E needle \in Head(table)[1] : UrlContains(u, needle)
         THEN Some(Str(<<Head(table)[2]>>))
         ELSE CurrencyOfDomain(u, Tail(table))

\* The offers.priceCurrency of the first script that is an object with one;
\* a script whose offers cannot be searched (null, a number, a boolean)
\* raises and is passed.
RECURSIVE CurrencyFromScripts(_)
CurrencyFromScripts(scripts) ==
    IF scripts = << >> THEN None
    ELSE LET data == Head(scripts)
         IN  IF IsSome(data) /\ IsDict(data[1]) /\ Has(data[1], "offers")
                  /\ IsDict(data[1].d["offers"])
                  /\ Has(data[1].d["offers"], "priceCurrency")
             THEN Some(data[1].d["offers"].d["priceCurrency"])
             ELSE CurrencyFromScripts(Tail(scripts))

\* extract_currency as it would be with both domain tables ahead of the page.
extract_currency_domains_first(doc, u) ==
    IF IsSome(CurrencyOfDomain(u, amazon_currencies))
    THEN CurrencyOfDomain(u, amazon_currencies)[1]
    ELSE IF UrlContains(u, "walmart.ca") \/ UrlContains(u, "ebay.ca")
         THEN Str(<<"CAD">>)
    ELSE IF IsSome(doc.metaCurrency)
         THEN Str(IF IsSome(doc.metaCurrency[1].content)
                  THEN doc.metaCurrency[1].content[1] ELSE <<"USD">>)
    ELSE IF IsSome(CurrencyFromScripts(doc.ld)) THEN CurrencyFromScripts(doc.ld)[1]
    ELSE Str(<<"USD">>)

extract_currency(doc, u) ==
    IF IsSome(CurrencyOfDomain(u, amazon_currencies))
    THEN CurrencyOfDomain(u, amazon_currencies)[1]
    ELSE IF IsSome(doc.metaCurrency)
         THEN Str(IF IsSome(doc.metaCurrency[1].content)
                  THEN doc.metaCurrency[1].content[1] ELSE <<"USD">>)
    ELSE IF IsSome(CurrencyFromScripts(doc.ld)) THEN CurrencyFromScripts(doc.ld)[1]
    ELSE IF UrlContains(u, "walmart.ca") \/ UrlContains(u, "ebay.ca")
         THEN Str(<<"CAD">>)
    ELSE Str(<<"USD">>)

\* ---------------------------------------------------------- extract_weight

\* (\d+\.?\d*): the number tokens of the model's pages.
NumTokens == {"16", "1.5", "10", "5", "3", "500", "2"}

N(g) == Item(NumTokens, FALSE, g)

Tok(cls) == Item(cls, FALSE, 0)

OptColon == Item({":"}, TRUE, 0)

\* (kg|g|lbs?|pounds?|ounces?|oz|fl\s*oz), the one-token alternatives
WeightUnits == {"kg", "g", "lb", "lbs", "pound", "pounds", "ounce", "ounces", "oz"}

\* The alternatives of a weight regex: prefix, the number, a unit of one
\* token or "fl oz", suffix.
WeightAlts(prefix, suffix) ==
    <<  prefix \o <<N(1), Item(WeightUnits, FALSE, 2)>> \o suffix,
        prefix \o <<N(1), Item({"fl"}, FALSE, 2), Item({"oz"}, FALSE, 2)>>
           \o suffix  >>

FluidAlts ==
    <<  <<N(1), Item({"fl", "fl."}, FALSE, 2), Item({"oz"}, FALSE, 2)>>,
        <<N(1), Item({"fluid"}, FALSE, 2), Item({"ounce", "ounces"}, FALSE, 2)>>  >>

weight_patterns ==
    <<  WeightAlts(<<Tok({"weight"}), OptColon>>, << >>),
        WeightAlts(<< >>, <<Tok({"weight"})>>),
        WeightAlts(<<Tok({"item"}), Tok({"weight"}), OptColon>>, << >>),
        WeightAlts(<<Tok({"shipping"}), Tok({"weight"}), OptColon>>, << >>),
        WeightAlts(<<Tok({"net"}), Tok({"wt", "wt."})>>, << >>),
        <<  <<N(1), Item({"fl"}, FALSE, 2), Item({"oz"}, FALSE, 2)>>,
            <<N(1), Item({"fluid"}, FALSE, 2),
              Item({"ounce", "ounces"}, FALSE, 2)>>  >>  >>

title_patterns ==
    <<  FluidAlts,
        << <<N(1), Item({"oz", "ounce", "ounces"}, FALSE, 2)>> >>,
        << <<N(1), Item({"ml", "milliliter", "milliliters"}, FALSE, 2)>> >>,
        << <<N(1), Item({"l", "liter", "liters"}, FALSE, 2)>> >>,
        << <<N(1), Item({"g", "gram", "grams"}, FALSE, 2)>> >>,
        << <<N(1), Item({"kg", "kilogram", "kilograms"}, FALSE, 2)>> >>,
        << <<N(1), Item({"lb", "lbs", "pound", "pounds"}, FALSE, 2)>> >>  >>

\* f"{match.group(1)} {match.group(2)}" for the first of pats that matches.
RECURSIVE FirstWeight(_, _)
FirstWeight(text, pats) ==
    IF pats = << >> THEN None
    ELSE LET m == Search(text, Head(pats))
         IN  IF m # << >> THEN Some(Group(text, m, 1) \o Group(text, m, 2))
             ELSE FirstWeight(text, Tail(pats))

RECURSIVE WeightFromSelectors(_)
WeightFromSelectors(els) ==
    IF els = << >> THEN None
    ELSE IF IsSome(FirstWeight(Head(els), weight_patterns))
         THEN FirstWeight(Head(els), weight_patterns)
         ELSE WeightFromSelectors(Tail(els))

\* The texts of the regions the weight and the dimensions selectors match.
DetailRegions(doc) == doc.rows \o doc.bullets \o doc.facts

\* extract_weight as it would be without its search of the product title.
extract_weight_of_page(doc, self) ==
    IF IsSome(WeightFromSelectors(doc.weightEls \o DetailRegions(doc)))
    THEN WeightFromSelectors(doc.weightEls \o DetailRegions(doc))[1]
    ELSE WeightNotFound

\* self is the scraper instance: _last_product_name is an optional value.
extract_weight(doc, self) ==
    IF IsSome(WeightFromSelectors(doc.weightEls \o DetailRegions(doc)))
    THEN WeightFromSelectors(doc.weightEls \o DetailRegions(doc))[1]
    ELSE IF IsSome(self.last_product_name)
              /\ IsSome(FirstWeight(self.last_product_name[1], title_patterns))
         THEN FirstWeight(self.last_product_name[1], title_patterns)[1]
    ELSE WeightNotFound

\* ------------------------------------------------------ extract_dimensions

\* float(token) for the number tokens.
Float(tok) ==
    CASE tok = "16" -> Num(16, <<"0">>)
      [] tok = "1.5" -> Num(1, <<"5">>)
      [] tok = "10" -> Num(10, <<"0">>)
      [] tok = "5" -> Num(5, <<"0">>)
      [] tok = "3" -> Num(3, <<"0">>)
      [] tok = "500" -> Num(500, <<"0">>)
      [] tok = "2" -> Num(2, <<"0">>)

Times == Tok({"x", "×"})

\* ["'] and ["'″]: the double prime is written "''"
OptQuote == Item({"\"", "'"}, TRUE, 0)

QuoteMarks == {"\"", "'", "''"}

\* (in|inches?|cm|mm)? and (in|inches?|cm|mm|m)?
OptUnit(g) == Item({"in", "inch", "inches", "cm", "mm"}, TRUE, g)

OptUnitM(g) == Item({"in", "inch", "inches", "cm", "mm", "m"}, TRUE, g)

dim_patterns ==
    <<  << <<N(1), OptQuote, Tok({"l"}), Times, N(2), OptQuote, Tok({"w"}), Times,
             N(3), OptQuote, Tok({"h"}), OptQuote, OptUnit(4)>> >>,
        << <<Tok({"length"}), OptColon, N(1), AnyRun, Tok({"width"}), OptColon, N(2),
             AnyRun, Tok({"height"}), OptColon, N(3), OptUnit(4)>> >>,
        << <<N(1), Times, N(2), Times, N(3), OptUnitM(4)>> >>,
        << <<Tok({"dimension", "dimensions"}), OptColon, N(1), Times, N(2), Times,
             N(3), OptUnitM(4)>> >>,
        << <<N(1), Tok(QuoteMarks), Times, N(2), Tok(QuoteMarks)>> >>,
        << <<N(1), Times, N(2), OptUnit(3)>> >>  >>

\* The number of capture groups of each of dim_patterns.
dim_groups == <<4, 4, 4, 4, 2, 3>>

known_units == {"in", "cm", "mm", "inches", "m"}

\* What the unit group takes of a token: `in` is the first alternative and
\* nothing anchors the end of the group, so of "inch" and "inches" it takes
\* "in".
UnitTaken(tok) == IF tok \in {"inch", "inches"} THEN "in" ELSE tok

\* The matched tokens, the last one as far as the pattern takes it.
TakenText(toks) == [i \in 1..Len(toks) |-> UnitTaken(toks[i])]

\* The structure the selector stage fills from the match m of pattern k: a
\* third group that is no known unit is parsed as the height, and when it
\* is no number float() raises ValueError, which leaves the unit unset.
DimensionsOfMatch(text, m, k) ==
    LET g(n) == TakenText(Group(text, m, n))
        third == IF dim_groups[k] >= 3 THEN g(3) ELSE << >>
        last == g(dim_groups[k])
        parses == third = << >> \/ third[1] \in known_units
                     \/ third[1] \in NumTokens
    IN  Dict([raw |-> Str(TakenText(Group0(text, m))),
              length |-> Float(g(1)[1]),
              width |-> Float(g(2)[1]),
              height |-> IF third # << >> /\ third[1] \notin known_units
                              /\ third[1] \in NumTokens
                         THEN Float(third[1]) ELSE Null,
              unit |-> IF ~parses THEN Null
                       ELSE IF last # << >> /\ last[1] \in known_units
                            THEN Str(last) ELSE Str(<<"in">>)])

\* The first of the patterns from k on that matches text, with its index.
RECURSIVE FirstDimMatch(_, _)
FirstDimMatch(text, k) ==
    IF k > Len(dim_patterns) THEN << >>
    ELSE IF Search(text, dim_patterns[k]) # << >>
         THEN <<k, Search(text, dim_patterns[k])>>
         ELSE FirstDimMatch(text, k + 1)

RECURSIVE DimensionsFromSelectors(_)
DimensionsFromSelectors(els) ==
    IF els = << >> THEN None
    ELSE LET f == FirstDimMatch(Head(els), 1)
         IN  IF f # << >> THEN Some(DimensionsOfMatch(Head(els), f[2], f[1]))
             ELSE DimensionsFromSelectors(Tail(els))

\* The 2D patterns on the product title give the raw text alone.
DimensionsFromTitle(self) ==
    IF IsSome(self.last_product_name)
         /\ FirstDimMatch(self.last_product_name[1], Len(dim_patterns) - 1) # << >>
    THEN Some(Dict([raw |-> Str(TakenText(
                                  Group0(self.last_product_name[1],
                                         FirstDimMatch(self.last_product_name[1],
                                                       Len(dim_patterns) - 1)[2]))),
                    length |-> Null, width |-> Null, height |-> Null,
                    unit |-> Null]))
    ELSE None

extract_dimensions(doc, self) ==
    IF IsSome(DimensionsFromSelectors(DetailRegions(doc) \o doc.dimEls))
    THEN DimensionsFromSelectors(DetailRegions(doc) \o doc.dimEls)[1]
    ELSE IF IsSome(DimensionsFromTitle(self)) THEN DimensionsFromTitle(self)[1]
    ELSE SentinelDimensions

\* ---------------------------------------------------------- scrape_product

\* The diagnostic mapping as it would be if its flags compared case.
DebugInfoCaseSensitive(page) ==
    Dict([status |-> Num(page.status, << >>),
          response_length |-> Num(Len(page.body), << >>),
          robot_check |-> Bool(Contains(page.body, "robot check")),
          captcha |-> Bool(Contains(page.body, "captcha"))])

\* 'robot check' in response.text.lower(), 'captcha' in response.text.lower()
DebugInfo(page) ==
    Dict([status |-> Num(page.status, << >>),
          response_length |-> Num(Len(page.body), << >>),
          robot_check |-> Bool(Contains(LowerText(page.body), "robot check")),
          captcha |-> Bool(Contains(LowerText(page.body), "captcha"))])

\* 'Robot Check' in response.text or 'captcha' in response.text.lower()
IsBlocked(body) ==
    Contains(body, "Robot Check") \/ Contains(LowerText(body), "captcha")

BlockedRecord(u, info) ==
    [name |-> Str(NameNotFound),
     brand |-> Str(<< >>),
     gtin |-> Str(<< >>),
     description |-> Str(BlockedDescription),
     images |-> List(<< >>),
     price |-> Str(PriceNotFound),
     currency |-> Str(IF UrlContains(u, "amazon.ca") THEN <<"CAD">> ELSE <<"USD">>),
     source |-> Str(u),
     weight |-> Str(WeightNotFound),
     dimensions |-> SentinelDimensions,
     blocked |-> Bool(TRUE),
     message |-> Str(BlockedMessage),
     debug_info |-> info]

\* The timeout record as it would be with a blocked flag added to it.
TimeoutRecordWithBlocked(u) ==
    [name |-> Str(NameNotFound),
     brand |-> Str(<< >>),
     gtin |-> Str(<< >>),
     description |-> Str(TimeoutDescription),
     images |-> List(<< >>),
     price |-> Str(PriceNotFound),
     currency |-> Str(<<"USD">>),
     source |-> Str(u),
     weight |-> Str(WeightNotFound),
     dimensions |-> SentinelDimensions,
     blocked |-> Bool(FALSE),
     error |-> Str(<<"Request timed out">>)]

TimeoutRecord(u) ==
    [name |-> Str(NameNotFound),
     brand |-> Str(<< >>),
     gtin |-> Str(<< >>),
     description |-> Str(TimeoutDescription),
     images |-> List(<< >>),
     price |-> Str(PriceNotFound),
     currency |-> Str(<<"USD">>),
     source |-> Str(u),
     weight |-> Str(WeightNotFound),
     dimensions |-> SentinelDimensions,
     error |-> Str(<<"Request timed out">>)]

\* The wrapped failure as it would be without the text of the original error.
ScrapeFailureWithoutText(e) == [k |-> "raise", msg |-> <<"Failed to scrape URL">>]

\* raise Exception(f"Failed to scrape URL: {str(e)}")
ScrapeFailure(e) == [k |-> "raise", msg |-> <<"Failed to scrape URL: ", e>>]

Returned(record) == [k |-> "return", v |-> record]

NoOutcome == [k |-> "none"]

NoValues ==
    [name |-> None, price |-> None, currency |-> None, brand |-> None,
     gtin |-> None, description |-> None, images |-> None, weight |-> None,
     dimensions |-> None]

\* any(unit in name.lower() for unit in ['oz', 'fl', 'lb', 'g', 'kg', 'ml']):
\* the words of the model's names whose lower case holds one of the units.
UnitBearing ==
    {"oz", "fl", "fl.", "lb", "lbs", "g", "kg", "ml", "ounces", "grams",
     "Widget", "widget", "Rug", "Flour", "Garden", "Supercalifragilisti",
     "Supercalifragilistic"}

backfill_patterns ==
    <<  FluidAlts,
        << <<N(1), Item({"oz", "ounce", "ounces"}, FALSE, 2)>> >>,
        << <<N(1), Item({"ml", "milliliter", "milliliters"}, FALSE, 2)>> >>,
        << <<N(1), Item({"g", "gram", "grams"}, FALSE, 2)>> >>,
        << <<N(1), Item({"lb", "lbs", "pound", "pounds"}, FALSE, 2)>> >>  >>

\* If weight not found but title contains weight info, extract it.
Backfill(weight, name) ==
    IF weight = WeightNotFound /\ (\E i \in 1..Len(name) : name[i] \in UnitBearing)
         /\ IsSome(FirstWeight(name, backfill_patterns))
    THEN FirstWeight(name, backfill_patterns)[1]
    ELSE weight

\* product_data as it would be without its blocked flag.
ProductDataWithoutBlocked(v, u) ==
    [name |-> Str(v.name[1]),
     brand |-> v.brand[1],
     gtin |-> Str(v.gtin[1]),
     description |-> Str(v.description[1]),
     images |-> List(v.images[1]),
     price |-> Str(v.price[1]),
     currency |-> v.currency[1],
     source |-> Str(u),
     weight |-> Str(Backfill(v.weight[1], v.name[1])),
     dimensions |-> v.dimensions[1]]

\* product_data as scrape_product returns it.
ProductData(v, u) ==
    [name |-> Str(v.name[1]),
     brand |-> v.brand[1],
     gtin |-> Str(v.gtin[1]),
     description |-> Str(v.description[1]),
     images |-> List(v.images[1]),
     price |-> Str(v.price[1]),
     currency |-> v.currency[1],
     source |-> Str(u),
     weight |-> Str(Backfill(v.weight[1], v.name[1])),
     dimensions |-> v.dimensions[1],
     blocked |-> Bool(FALSE)]

\* print(f"   First image: {product_data['images'][0][:80]}...") raises
\* TypeError when the first image is no string.
SummaryRaises(record) ==
    record.images.l # << >> /\ ~IsStr(record.images.l[1])

\* random.choice(user_agents) draws from these; two of the four stand for
\* the list.
user_agents == {"Chrome/120.0 Windows", "Firefox/121.0 Windows"}

\* The route constructs the scraper, which draws its user agent, and calls
\* scrape_product, or answers 400 when the request carries no URL.
scrape(r) ==
    /\ pc[r] = "route"
    /\ IF IsSome(web[r].url)
       THEN /\ pc' = [pc EXCEPT ![r] = "fetch"]
            /\ url' = [url EXCEPT ![r] = web[r].url[1]]
            /\ \E agent \in user_agents :
                  inst' = [inst EXCEPT ![r].user_agent = agent]
            /\ response' = response
       ELSE /\ pc' = [pc EXCEPT ![r] = "done"]
            /\ response' = [response EXCEPT ![r] =
                   [code |-> 400, body |-> [error |-> Str(<<"URL is required">>)]]]
            /\ UNCHANGED <<url, inst>>
    /\ UNCHANGED <<sub, web, debug_info, parsed, calls, gets, loc, outcome>>

\* A status check that lets every response through.
raise_for_status_never(page) == FALSE

\* response.raise_for_status() raises HTTPError for a 4xx or 5xx status.
raise_for_status(page) == page.status >= 400 /\ page.status < 600

\* Fetch as it would be with one more attempt after a timeout.
FetchWithRetry(r) ==
    /\ pc[r] = "fetch"
    /\ gets' = [gets EXCEPT ![r] = @ + 1]
    /\ CASE web[r].fetch = "timeout" /\ gets[r] = 0 ->
              UNCHANGED <<url, debug_info, outcome, pc>>
         [] web[r].fetch = "timeout" /\ gets[r] > 0 ->
              /\ outcome' = [outcome EXCEPT ![r] = Returned(TimeoutRecord(url[r]))]
              /\ pc' = [pc EXCEPT ![r] = "respond"]
              /\ UNCHANGED <<url, debug_info>>
         [] web[r].fetch = "error" ->
              /\ outcome' = [outcome EXCEPT ![r] = ScrapeFailure(web[r].error)]
              /\ pc' = [pc EXCEPT ![r] = "respond"]
              /\ UNCHANGED <<url, debug_info>>
         [] web[r].fetch = "ok" /\ raise_for_status(web[r]) ->
              /\ outcome' = [outcome EXCEPT ![r] = ScrapeFailure("HTTPError")]
              /\ pc' = [pc EXCEPT ![r] = "respond"]
              /\ UNCHANGED <<url, debug_info>>
         [] web[r].fetch = "ok" /\ ~raise_for_status(web[r]) ->
              /\ url' = [url EXCEPT ![r] = web[r].final]
              /\ debug_info' = [debug_info EXCEPT ![r] = Some(DebugInfo(web[r]))]
              /\ pc' = [pc EXCEPT ![r] = "detect"]
              /\ outcome' = outcome
    /\ UNCHANGED <<sub, web, parsed, calls, inst, loc, response>>

\* Fetch as it would be without url = response.url.
FetchKeepingUrl(r) ==
    /\ pc[r] = "fetch"
    /\ gets' = [gets EXCEPT ![r] = @ + 1]
    /\ CASE web[r].fetch = "timeout" ->
              /\ outcome' = [outcome EXCEPT ![r] = Returned(TimeoutRecord(url[r]))]
              /\ pc' = [pc EXCEPT ![r] = "respond"]
              /\ UNCHANGED <<url, debug_info>>
         [] web[r].fetch = "error" ->
              /\ outcome' = [outcome EXCEPT ![r] = ScrapeFailure(web[r].error)]
              /\ pc' = [pc EXCEPT ![r] = "respond"]
              /\ UNCHANGED <<url, debug_info>>
         [] web[r].fetch = "ok" /\ raise_for_status(web[r]) ->
              /\ outcome' = [outcome EXCEPT ![r] = ScrapeFailure("HTTPError")]
              /\ pc' = [pc EXCEPT ![r] = "respond"]
              /\ UNCHANGED <<url, debug_info>>
         [] web[r].fetch = "ok" /\ ~raise_for_status(web[r]) ->
              /\ url' = url
              /\ debug_info' = [debug_info EXCEPT ![r] = Some(DebugInfo(web[r]))]
              /\ pc' = [pc EXCEPT ![r] = "detect"]
              /\ outcome' = outcome
    /\ UNCHANGED <<sub, web, parsed, calls, inst, loc, response>>

\* time.sleep, session.get(url, timeout=15), raise_for_status, url =
\* response.url, debug_info = {...}
Fetch(r) ==
    /\ pc[r] = "fetch"
    /\ gets' = [gets EXCEPT ![r] = @ + 1]
    /\ CASE web[r].fetch = "timeout" ->
              /\ outcome' = [outcome EXCEPT ![r] = Returned(TimeoutRecord(url[r]))]
              /\ pc' = [pc EXCEPT ![r] = "respond"]
              /\ UNCHANGED <<url, debug_info>>
         [] web[r].fetch = "error" ->
              /\ outcome' = [outcome EXCEPT ![r] = ScrapeFailure(web[r].error)]
              /\ pc' = [pc EXCEPT ![r] = "respond"]
              /\ UNCHANGED <<url, debug_info>>
         [] web[r].fetch = "ok" /\ raise_for_status(web[r]) ->
              /\ outcome' = [outcome EXCEPT ![r] = ScrapeFailure("HTTPError")]
              /\ pc' = [pc EXCEPT ![r] = "respond"]
              /\ UNCHANGED <<url, debug_info>>
         [] web[r].fetch = "ok" /\ ~raise_for_status(web[r]) ->
              /\ url' = [url EXCEPT ![r] = web[r].final]
              /\ debug_info' = [debug_info EXCEPT ![r] = Some(DebugInfo(web[r]))]
              /\ pc' = [pc EXCEPT ![r] = "detect"]
              /\ outcome' = outcome
    /\ UNCHANGED <<sub, web, parsed, calls, inst, loc, response>>

\* Detect as it would be with the body parsed before the block check.
DetectAfterParsing(r) ==
    /\ pc[r] = "detect"
    /\ IF web[r].parse = "error"
       THEN /\ outcome' = [outcome EXCEPT ![r] = ScrapeFailure("parser error")]
            /\ pc' = [pc EXCEPT ![r] = "respond"]
            /\ parsed' = parsed
       ELSE IF IsBlocked(web[r].body)
       THEN /\ outcome' = [outcome EXCEPT ![r] =
                   Returned(BlockedRecord(url[r], debug_info[r][1]))]
            /\ pc' = [pc EXCEPT ![r] = "respond"]
            /\ parsed' = [parsed EXCEPT ![r] = TRUE]
       ELSE /\ parsed' = [parsed EXCEPT ![r] = TRUE]
            /\ pc' = [pc EXCEPT ![r] = "name"]
            /\ outcome' = outcome
    /\ UNCHANGED <<sub, web, url, debug_info, calls, gets, inst, loc, response>>

\* The blocked return, or soup = BeautifulSoup(response.content, ...)
Detect(r) ==
    /\ pc[r] = "detect"
    /\ IF IsBlocked(web[r].body)
       THEN /\ outcome' = [outcome EXCEPT ![r] =
                   Returned(BlockedRecord(url[r], debug_info[r][1]))]
            /\ pc' = [pc EXCEPT ![r] = "respond"]
            /\ parsed' = parsed
       ELSE IF web[r].parse = "error"
       THEN /\ outcome' = [outcome EXCEPT ![r] = ScrapeFailure("parser error")]
            /\ pc' = [pc EXCEPT ![r] = "respond"]
            /\ parsed' = parsed
       ELSE /\ parsed' = [parsed EXCEPT ![r] = TRUE]
            /\ pc' = [pc EXCEPT ![r] = "name"]
            /\ outcome' = outcome
    /\ UNCHANGED <<sub, web, url, debug_info, calls, gets, inst, loc, response>>

\* One extractor call: the value goes to field, the next call is at next.
Extract(r, at, field, value, next) ==
    /\ pc[r] = at
    /\ loc' = [loc EXCEPT ![r][field] = Some(value)]
    /\ calls' = [calls EXCEPT ![r] = Append(@, field)]
    /\ pc' = [pc EXCEPT ![r] = next]
    /\ UNCHANGED <<sub, web, url, debug_info, parsed, gets, outcome, response>>

\* ExtractName as it would be with one scraper instance shared by the
\* requests.
ExtractNameShared(r) ==
    /\ Extract(r, "name", "name", extract_name(web[r].doc), "price")
    /\ inst' = [q \in Reqs |->
                   [inst[q] EXCEPT !.last_product_name = Some(extract_name(web[r].doc))]]

\* name = self.extract_name(soup); self._last_product_name = name
ExtractName(r) ==
    /\ Extract(r, "name", "name", extract_name(web[r].doc), "price")
    /\ inst' = [inst EXCEPT ![r].last_product_name = Some(extract_name(web[r].doc))]

\* The price call as it would be if the brand call came right after it.
ExtractPriceThenBrand(r) ==
    /\ Extract(r, "price", "price", extract_price(web[r].doc), "brand")
    /\ inst' = inst

\* price = self.extract_price(soup)
ExtractPrice(r) ==
    /\ Extract(r, "price", "price", extract_price(web[r].doc), "currency")
    /\ inst' = inst

ExtractCurrency(r) ==
    /\ Extract(r, "currency", "currency", extract_currency(web[r].doc, url[r]), "brand")
    /\ inst' = inst

ExtractBrand(r) ==
    /\ Extract(r, "brand", "brand", extract_brand(web[r].doc, loc[r].name[1]), "gtin")
    /\ inst' = inst

ExtractGtin(r) ==
    /\ Extract(r, "gtin", "gtin", extract_gtin(web[r].doc), "description")
    /\ inst' = inst

ExtractDescription(r) ==
    /\ Extract(r, "description", "description", extract_description(web[r].doc),
               "images")
    /\ inst' = inst

\* extract_images returns its list, or raises and scrape_product wraps the
\* error.
ExtractImages(r) ==
    LET result == extract_images(web[r].doc, url[r])
    IN  /\ pc[r] = "images"
        /\ calls' = [calls EXCEPT ![r] = Append(@, "images")]
        /\ IF result.raised
           THEN /\ outcome' = [outcome EXCEPT ![r] = ScrapeFailure(result.error)]
                /\ pc' = [pc EXCEPT ![r] = "respond"]
                /\ loc' = loc
           ELSE /\ loc' = [loc EXCEPT ![r].images = Some(result.value)]
                /\ pc' = [pc EXCEPT ![r] = "weight"]
                /\ outcome' = outcome
        /\ UNCHANGED <<sub, web, url, debug_info, parsed, gets, inst, response>>

ExtractWeight(r) ==
    /\ Extract(r, "weight", "weight", extract_weight(web[r].doc, inst[r]),
               "dimensions")
    /\ inst' = inst

ExtractDimensions(r) ==
    /\ Extract(r, "dimensions", "dimensions",
               extract_dimensions(web[r].doc, inst[r]), "assemble")
    /\ inst' = inst

\* product_data = {...}, the weight backfill, the printed summary, return
Assemble(r) ==
    /\ pc[r] = "assemble"
    /\ outcome' = [outcome EXCEPT ![r] =
           IF SummaryRaises(ProductData(loc[r], url[r]))
           THEN ScrapeFailure("object is not subscriptable")
           ELSE Returned(ProductData(loc[r], url[r]))]
    /\ pc' = [pc EXCEPT ![r] = "respond"]
    /\ UNCHANGED <<sub, web, url, debug_info, parsed, calls, gets, inst, loc, response>>

\* return jsonify(product_data), or the route's except: the error, 500
Respond(r) ==
    /\ pc[r] = "respond"
    /\ response' = [response EXCEPT ![r] =
           IF outcome[r].k = "return"
           THEN [code |-> 200, body |-> outcome[r].v]
           ELSE [code |-> 500, body |-> [error |-> Str(outcome[r].msg)]]]
    /\ pc' = [pc EXCEPT ![r] = "done"]
    /\ UNCHANGED <<sub, web, url, debug_info, parsed, calls, gets, inst, loc, outcome>>

\* ------------------------------------------------------------- the inputs

\* A page on which no selector matches anything.
EmptyDoc ==
    [nameEls |-> << >>, title |-> None, ld |-> << >>, brandEls |-> << >>,
     rows |-> << >>, facts |-> << >>, bullets |-> << >>, specs |-> << >>,
     gtinEls |-> << >>, descEls |-> << >>, metaDesc |-> None, ogDesc |-> None,
     imgs |-> << >>, priceApex |-> << >>, priceWhole |-> None,
     priceFraction |-> None, priceEls |-> << >>, metaCurrency |-> None,
     weightEls |-> << >>, dimEls |-> << >>]

ShopUrl == <<"https://", "shop.example.com", "/dp/1">>

AmazonCaUrl == <<"https://", "www.amazon.ca", "/dp/1">>

AmazonComUrl == <<"https://", "www.amazon.com", "/dp/1">>

\* What a site serves: the response of a successful GET.
Page(final, status, body, doc) ==
    [url |-> Some(final), fetch |-> "ok", error |-> "", final |-> final,
     status |-> status, body |-> body, parse |-> "ok", doc |-> doc]

\* A GET that fails: fetch is "timeout" or "error".
Failure(u, fetch, error) ==
    [url |-> Some(u), fetch |-> fetch, error |-> error, final |-> u,
     status |-> 0, body |-> << >>, parse |-> "ok", doc |-> EmptyDoc]

\* A request without a URL.
NoUrl == [Failure(ShopUrl, "error", "") EXCEPT !.url = None]

\* A slot no request uses.
Idle == [NoUrl EXCEPT !.fetch = "idle"]

Char(n) == [i \in 1..n |-> "x"]

ImageUrl(path, ext) == <<"https://", "cdn.example.com", path, ext>>

NameTexts ==
    {<<"Acme", "Heavy-Duty", "Widget">>, <<"Hand", "Soap", "16", "fl", "oz">>,
     <<"Soap">>, << >>}

TitleTexts ==
    {<<"Acme", "Widget", "-", "Amazon.ca", ":", "Home">>, <<"New", "Widget", "Pro">>,
     <<"|", "Shop">>, << >>}

NameDocs ==
    {[EmptyDoc EXCEPT !.nameEls = els, !.title = title] :
        els \in {<< >>} \cup {<<n>> : n \in NameTexts}
                  \cup {<<<<"Soap">>, <<"Rug", "10", "x", "5">>>>},
        title \in {None} \cup {Some(t) : t \in TitleTexts}}

DescElements ==
    {[tag |-> "ul", items |-> << >>, src |-> FALSE, text |-> << >>],
     [tag |-> "ul", items |-> [i \in 1..6 |-> Char(i)], src |-> FALSE,
      text |-> << >>],
     [tag |-> "ul", items |-> [i \in 1..3 |-> Char(200)], src |-> FALSE,
      text |-> << >>],
     [tag |-> "iframe", items |-> << >>, src |-> TRUE, text |-> << >>],
     [tag |-> "iframe", items |-> << >>, src |-> FALSE, text |-> << >>],
     [tag |-> "div", items |-> << >>, src |-> FALSE, text |-> Char(20)],
     [tag |-> "div", items |-> << >>, src |-> FALSE, text |-> Char(501)]}

Metas == {None, Some([content |-> None]), Some([content |-> Some(Char(30))]),
          Some([content |-> Some(Char(600))])}

DescDocs ==
    {[EmptyDoc EXCEPT !.descEls = els, !.metaDesc = m, !.ogDesc = og] :
        els \in {<< >>} \cup {<<e>> : e \in DescElements}
                  \cup {<<u, e>> :
                         u \in {d \in DescElements : d.tag = "ul" /\ d.items = << >>},
                         e \in {d \in DescElements : d.tag = "div"}},
        m \in Metas, og \in {None, Some([content |-> Some(Char(40))]),
                              Some([content |-> None])}}

ImagePaths == <<"/img/a", "/img/b", "/img/c", "/img/d", "/img/e", "/img/f",
                "/img/g", "/img/h", "/img/i", "/img/j", "/img/k">>

Img(attr, value) == [a \in {attr} |-> value]

ImgLists ==
    {<< >>,
     <<Img("src", ImageUrl("/img/a", ".jpg")), Img("src", ImageUrl("/img/a", ".jpg")),
       Img("data-src", ImageUrl("/img/b", ".gif"))>>,
     <<Img("src", <<"//", "cdn.example.com", "/img/c", ".png">>),
       Img("src", <<"/img/d", ".jpg">>), Img("src", <<"data:", "base64">>),
       Img("data-src", <<"img/e", ".jpg">>)>>,
     [i \in 1..Len(ImagePaths) |-> Img("src", ImageUrl(ImagePaths[i], ".jpg"))],
     <<Img("data-a-dynamic-image",
           <<[json |-> "object", keys |-> <<ImageUrl("/img/f", ".jpg")>>]>>),
       Img("data-a-dynamic-image", <<[json |-> "invalid", keys |-> << >>]>>),
       Img("data-zoom-image", ImageUrl("/img/g", ".jpg"))>>}

Script(fields) == Some(Dict(fields))

LdImages ==
    {<< >>,
     <<None>>,
     <<Script([image |-> Str(ImageUrl("/img/a", ".jpg"))])>>,
     <<Script([image |-> Str(<<"/img/h", ".gif">>)])>>,
     <<Script([image |-> List(<<Str(ImageUrl("/img/a", ".jpg")),
                               Str(ImageUrl("/img/k", ".jpg")),
                               Str(ImageUrl("/img/k", ".jpg"))>>)])>>,
     <<Script([image |-> List(<<Str(ImageUrl("/img/k", ".jpg")),
                               Str(ImageUrl("/img/a", ".jpg")),
                               Str(ImageUrl("/img/k", ".jpg"))>>)])>>,
     <<Script([image |-> List(<<Dict([url |-> Str(ImageUrl("/img/a", ".jpg"))])>>)])>>,
     <<Script([image |-> Dict([url |-> Str(ImageUrl("/img/a", ".jpg"))])])>>,
     <<Script([image |-> List(<<Null>>)])>>,
     <<Some(List(<<Dict([image |-> Str(ImageUrl("/img/a", ".jpg"))])>>))>>}

ImageDocs ==
    {[EmptyDoc EXCEPT !.imgs = imgs, !.ld = ld] : imgs \in ImgLists, ld \in LdImages}

LdPrices ==
    {<< >>,
     <<Script([offers |-> Dict([price |-> Str(<<"1", "9", ".", "9", "9">>)])])>>,
     <<Script([offers |-> Dict([price |-> Num(25, << >>)])])>>,
     <<Script([offers |-> Dict([price |-> Num(19, <<"5", "0">>)])])>>,
     <<Script([offers |-> Dict([price |-> Str(<<"1", ",", "2", "9", "9">>)])])>>,
     <<Script([price |-> Str(<<"1", "2">>)])>>,
     <<Script([offers |-> Null, price |-> Str(<<"1", "2">>)])>>,
     <<Script([offers |-> Null, price |-> Str(<<"1", "2">>)]),
       Script([offers |-> List(<< >>), price |-> Num(7, << >>)])>>,
     <<Some(List(<<Dict([offers |-> Dict([price |-> Num(3, <<"2", "5">>)])])>>))>>}

Span(text) == [tag |-> "span", content |-> None, text |-> text]

Meta(content) == [tag |-> "meta", content |-> content, text |-> << >>]

PriceElementLists ==
    {<< >>,
     <<Span(<<"$", "1", ",", "2", "9", "9">>)>>,
     <<Span(<<"1", "9", ".", "9", "9">>)>>,
     <<Span(<<"$", "1", "2", "9", "9", ".", "9", "9">>)>>,
     <<Span(<<"U", "S", "D", " ", "5">>)>>,
     <<Span(<<"N", "/", "A">>)>>,
     <<Span(<<"F", "r", "e", "e">>), Span(<<"£", " ", "7", ".", "5">>)>>,
     <<Meta(Some(<<"2", "5">>))>>,
     <<Meta(Some(<<"1", ",", "2", "9", "9", ".", "0", "0">>))>>,
     <<Meta(None), Meta(Some(<<"C", "A", "D">>))>>}

Wholes ==
    {None,
     Some([text |-> <<"1", "9", ".">>, siblings |-> <<"9", "9">>]),
     Some([text |-> <<"N", "/", "A">>, siblings |-> << >>]),
     Some([text |-> <<"-", "-">>, siblings |-> <<"1", "2", ".", "5">>])}

PriceDocs ==
    {[EmptyDoc EXCEPT !.ld = ld, !.priceEls = els] :
        ld \in LdPrices, els \in {<< >>, <<Span(<<"1", "9", ".", "9", "9">>)>>}}
    \cup
    {[EmptyDoc EXCEPT !.priceEls = els, !.priceWhole = w, !.priceFraction = f] :
        els \in PriceElementLists, w \in Wholes,
        f \in {None, Some(<<"9", "9">>)}}

AcmeName == <<"Acme", "Heavy-Duty", "Widget">>

BrandDocs ==
    {[EmptyDoc EXCEPT !.ld = ld, !.brandEls = els, !.rows = rows, !.specs = specs,
                      !.nameEls = names] :
        ld \in {<< >>, <<Script([brand |-> Str(<<"Acme">>)])>>,
                <<Script([brand |-> Dict([name |-> Str(<<"Zenith">>)])])>>,
                <<Script([brand |-> Null])>>,
                <<Script([brand |-> Str(<<"Unknown">>)])>>},
        els \in {<< >>, <<<<"Visit the", "Acme", "Store">>>>, <<<<"Unknown">>>>},
        rows \in {<< >>, <<<<"Brand", ":", "Bolt">>>>},
        specs \in {<< >>, <<<<"Brand", ":", "Core", "\n", "Color", ":", "Red">>>>},
        names \in {<< >>, <<AcmeName>>, <<<<"New", "Widget", "Pro">>>>}}

\* Names whose first word is at and around each bound of the name fallback.
FallbackNames ==
    {<<"Zen", "Garden", "Kit">>, <<"HP", "Laser", "Printer">>,
     <<"acme", "widget", "pro">>, <<"Premium", "Widget", "Box">>,
     <<"Supercalifragilisti", "Toy">>, <<"Supercalifragilistic", "Toy">>}

FallbackDocs == {[EmptyDoc EXCEPT !.nameEls = <<n>>] : n \in FallbackNames}

GtinDocs ==
    {[EmptyDoc EXCEPT !.ld = ld, !.gtinEls = els, !.bullets = bullets] :
        ld \in {<< >>, <<Script([gtin13 |-> Str(<<"4006381333931">>)])>>,
                <<Script([offers |-> Dict([upc |-> Num(12345678, << >>)])])>>},
        els \in {<< >>, <<<<"UPC", ":", "012345678905">>>>, <<<<"UPC", ":", "n/a">>>>},
        bullets \in {<< >>, <<<<"ASIN", ":", "B00ABC1234">>>>,
                     <<<<"Model", ":", "12345678">>>>}}

CurrencyDocs ==
    {[EmptyDoc EXCEPT !.metaCurrency = m, !.ld = ld] :
        m \in {None, Some([content |-> None]), Some([content |-> Some(<<"EUR">>)])},
        ld \in {<< >>, <<Script([offers |-> Dict([priceCurrency |-> Str(<<"GBP">>)])])>>}}

WeightDocs ==
    {[EmptyDoc EXCEPT !.rows = rows, !.weightEls = els, !.nameEls = names] :
        rows \in {<< >>, <<<<"Item", "Weight", ":", "1.5", "kg">>>>,
                  <<<<"Color", ":", "Red">>>>},
        els \in {<< >>, <<<<"16", "fl", "oz">>>>},
        names \in {<< >>, <<<<"Hand", "Soap", "16", "fl", "oz">>>>, <<AcmeName>>,
                   <<<<"Flour", "2", "kg">>>>, <<<<"Pack", "5", "lbs", "16", "oz">>>>,
                   <<<<"Soap", "10", "oz", "16", "fl", "oz">>>>}}

DimensionDocs ==
    {[EmptyDoc EXCEPT !.rows = rows, !.dimEls = els, !.nameEls = names] :
        rows \in {<< >>, <<<<"Dimensions", ":", "10", "x", "5", "x", "3", "cm">>>>,
                  <<<<"Size", ":", "10", "x", "5", "x", "3", "CM">>>>,
                  <<<<"Color", ":", "Red">>>>},
        els \in {<< >>, <<<<"10", "x", "5", "inch">>>>, <<<<"10", "x", "5", "CM">>>>,
                 <<<<"16", "''", "x", "10", "''">>>>},
        names \in {<< >>, <<<<"Rug", "10", "x", "5">>>>, <<AcmeName>>}}

Bodies ==
    {<<"html">>, <<"html", "Robot Check">>, <<"robot check">>, <<"ROBOT CHECK">>,
     <<"captcha", "html">>, <<"html", "page", "CAPTCHA">>, <<"Captcha">>}

RichDoc ==
    [EmptyDoc EXCEPT !.nameEls = <<AcmeName>>,
                     !.priceEls = <<Span(<<"1", "9", ".", "9", "9">>)>>,
                     !.imgs = <<Img("src", ImageUrl("/img/a", ".jpg"))>>,
                     !.descEls = <<[tag |-> "div", items |-> << >>, src |-> FALSE,
                                    text |-> Char(20)]>>]

\* A product URL on each retailer host of the model.
RetailerHosts ==
    {"www.amazon.co.uk", "www.amazon.de", "www.amazon.fr", "www.amazon.es",
     "www.amazon.it", "www.amazon.co.jp", "www.amazon.in", "www.amazon.com.au",
     "www.walmart.ca", "www.ebay.ca"}

Urls == {ShopUrl, AmazonCaUrl, AmazonComUrl}
        \cup {<<"https://", host, "/dp/1">> : host \in RetailerHosts}

\* What the requests of the model may meet.
Worlds ==
    {Page(ShopUrl, 200, <<"html">>, doc) :
        doc \in NameDocs \cup DescDocs \cup PriceDocs \cup BrandDocs \cup GtinDocs
                  \cup WeightDocs \cup DimensionDocs \cup FallbackDocs}
    \cup {Page(u, 200, <<"html">>, doc) :
             u \in {ShopUrl, AmazonCaUrl}, doc \in ImageDocs}
    \cup {Page(u, 200, <<"html">>, doc) : u \in Urls, doc \in CurrencyDocs}
    \cup {Page(u, status, body, doc) :
             u \in {ShopUrl, AmazonCaUrl}, status \in {200, 404}, body \in Bodies,
             doc \in {EmptyDoc, RichDoc}}
    \cup {[Page(AmazonCaUrl, 200, <<"html">>, RichDoc) EXCEPT
              !.url = Some(<<"https://", "a.co", "/dp/1">>)],
          [Page(ShopUrl, 200, <<"html">>, RichDoc) EXCEPT !.parse = "error"],
          NoUrl}
    \cup {Failure(u, "timeout", "") : u \in {ShopUrl, AmazonCaUrl}}
    \cup {Failure(u, "error", e) :
             u \in {ShopUrl, AmazonCaUrl},
             e \in {"Connection refused", "Invalid URL"}}

\* ------------------------------------------------------------------ submit

\* The inspection photos one form carries, at most.
MaxPhotos == 2

\* What becomes of a file of the form: it has no filename and is passed
\* over, or the upload returns a secure_url, returns none, or raises.
PhotoKinds == {"unnamed", "ok", "nourl", "raise"}

PhotoLists == UNION {[1..n -> PhotoKinds] : n \in 0..MaxPhotos}

\* float(form_data.get('price', 0)) in cents; None when float() raises
\* ValueError.
FloatCents(text) ==
    CASE text = "10" -> Some(1000)
      [] text = "19.99" -> Some(1999)
      [] OTHER -> None

\* A form with its environment: whether the store and the photo hosting are
\* configured, and the status the store answers the post with.
SubmitForms ==
    [airtable : BOOLEAN, cloudinary : BOOLEAN, price : {"10", "19.99", ""},
     currency : {"USD", "CAD"}, website : {"amazon", "ebay", "other"},
     photos : PhotoLists, store : {200, 422}]

\* upload_result.get('secure_url') of the upload of file i
secure_url(i) == <<"https://", "res.cloudinary.com", "/inspection_photos/", i>>

\* The 4more price as it would be with the USD rule ahead of the eBay rule.
four_more_price_usd_first(price, currency, website) ==
    IF currency = "USD" THEN price * 15
    ELSE IF website = "ebay" THEN price * 12
    ELSE price * 10

\* four_more_price, in tenths of a cent for a price in cents: price * 1.2 for
\* eBay, else price * 1.5 for USD, else price.
four_more_price(price, currency, website) ==
    IF website = "ebay" THEN price * 12
    ELSE IF currency = "USD" THEN price * 15
    ELSE price * 10

\* No form has been posted.
NoSubmission == [pc |-> "idle"]

\* The form has arrived at the route.
Arrived(form) ==
    [pc |-> "route", form |-> form, i |-> 1, photo_count |-> 0, uploads |-> 0,
     inspection_photos |-> << >>, data |-> << >>, posts |-> << >>,
     response |-> << >>]

\* data["fields"][key] = value
WithField(fields, key, value) ==
    [k \in DOMAIN fields \cup {key} |-> IF k = key THEN value ELSE fields[k]]

\* The success message: the number uploaded when there is one, else the
\* number selected when there is one.
SuccessMessage(inspection_photos, photo_count) ==
    IF inspection_photos # << >>
    THEN [text |-> "Item submitted successfully! {n} inspection photos uploaded.",
          n |-> Len(inspection_photos)]
    ELSE IF photo_count > 0
         THEN [text |-> "Item submitted successfully! Note: {n} photos selected but not uploaded (check Cloudinary config).",
               n |-> photo_count]
    ELSE [text |-> "Item submitted successfully!", n |-> 0]

scrapeVars == <<web, pc, url, debug_info, parsed, calls, gets, inst, loc, outcome,
                response>>

\* submit up to the inspection photos: the credentials check, the price and
\* the 4more price, the first fields of data.
submit ==
    /\ sub.pc = "route"
    /\ sub' =
          IF ~sub.form.airtable
          THEN [sub EXCEPT !.pc = "done",
                           !.response = [success |-> FALSE,
                                         error |-> "Airtable credentials not configured. Please check your .env file."]]
          ELSE IF FloatCents(sub.form.price) = None
          THEN [sub EXCEPT !.pc = "done",
                           !.response = [success |-> FALSE,
                                         error |-> "could not convert string to float"]]
          ELSE [sub EXCEPT
                   !.pc = "photos",
                   !.data = [k \in {"Unit Retail Price", "4more Price"} |->
                               IF k = "Unit Retail Price"
                               THEN FloatCents(sub.form.price)[1]
                               ELSE four_more_price(FloatCents(sub.form.price)[1],
                                                    sub.form.currency,
                                                    sub.form.website)]]
    /\ UNCHANGED scrapeVars

\* One turn of the loop over inspection_files.
Upload ==
    /\ sub.pc = "photos"
    /\ sub.i <= Len(sub.form.photos)
    /\ LET photo == sub.form.photos[sub.i]
           named == photo # "unnamed"
           hosted == sub.form.cloudinary
       IN  sub' = [sub EXCEPT
                      !.i = @ + 1,
                      !.photo_count = IF named THEN @ + 1 ELSE @,
                      !.uploads = IF named /\ hosted THEN @ + 1 ELSE @,
                      !.inspection_photos =
                          IF named /\ hosted /\ photo = "ok"
                          THEN Append(@, [url |-> secure_url(sub.i)])
                          ELSE @]
    /\ UNCHANGED scrapeVars

\* submit after the loop: the inspection photos go into data, data is
\* posted to the store, and the answer of the store decides the response.
Post ==
    /\ sub.pc = "photos"
    /\ sub.i > Len(sub.form.photos)
    /\ LET data == IF sub.inspection_photos # << >>
                   THEN WithField(sub.data, "Inspection Photos",
                                  sub.inspection_photos)
                   ELSE sub.data
       IN  sub' = [sub EXCEPT
                      !.pc = "done",
                      !.data = data,
                      !.posts = Append(@, data),
                      !.response =
                          IF sub.form.store = 200
                          THEN [success |-> TRUE, record_id |-> "rec",
                                photos_uploaded |-> Len(sub.inspection_photos),
                                message |-> SuccessMessage(sub.inspection_photos,
                                                           sub.photo_count)]
                          ELSE [success |-> FALSE, error |-> "Unknown error"]]
    /\ UNCHANGED scrapeVars

\* ------------------------------------------------------ the specification

\* The state of the request slots before their requests arrive.
Waiting(w) ==
    /\ web = w
    /\ pc = [r \in Reqs |-> IF w[r] = Idle THEN "idle" ELSE "route"]
    /\ url = [r \in Reqs |-> << >>]
    /\ debug_info = [r \in Reqs |-> None]
    /\ parsed = [r \in Reqs |-> FALSE]
    /\ calls = [r \in Reqs |-> << >>]
    /\ gets = [r \in Reqs |-> 0]
    /\ inst = [r \in Reqs |-> [last_product_name |-> None, user_agent |-> ""]]
    /\ loc = [r \in Reqs |-> NoValues]
    /\ outcome = [r \in Reqs |-> NoOutcome]
    /\ response = [r \in Reqs |-> [code |-> 0]]

\* The state of a request slot before its request arrives, no form posted.
Fresh(w) == Waiting(w) /\ sub = NoSubmission

\* One request, for any input of the model.
Init ==
    \E w \in Worlds : Fresh([r \in Reqs |-> IF r = 1 THEN w ELSE Idle])

Next ==
    \E r \in Reqs :
        \/ scrape(r)
        \/ Fetch(r)
        \/ Detect(r)
        \/ ExtractName(r)
        \/ ExtractPrice(r)
        \/ ExtractCurrency(r)
        \/ ExtractBrand(r)
        \/ ExtractGtin(r)
        \/ ExtractDescription(r)
        \/ ExtractImages(r)
        \/ ExtractWeight(r)
        \/ ExtractDimensions(r)
        \/ Assemble(r)
        \/ Respond(r)

Spec == Init /\ [][Next]_vars

\* One form posted to /submit, no scrape request.
InitSubmit ==
    \E form \in SubmitForms : Waiting([r \in Reqs |-> Idle]) /\ sub = Arrived(form)

NextSubmit == submit \/ Upload \/ Post

SubmitSpec == InitSubmit /\ [][NextSubmit]_vars

\* The inputs that lead to each way a call can end: the pages of every
\* status and body, a page that cannot be parsed, pages whose metadata makes
\* extract_images or the summary raise, the failed fetches, no URL.
OutcomeWorlds ==
    {Page(u, status, body, doc) :
        u \in {ShopUrl, AmazonCaUrl}, status \in {200, 404}, body \in Bodies,
        doc \in {EmptyDoc, RichDoc}}
    \cup {Page(ShopUrl, 200, <<"html">>, [EmptyDoc EXCEPT !.ld = ld]) : ld \in LdImages}
    \cup {[Page(ShopUrl, 200, <<"html">>, RichDoc) EXCEPT !.parse = "error"], NoUrl}
    \cup {Failure(u, "timeout", "") : u \in {ShopUrl, AmazonCaUrl}}
    \cup {Failure(u, "error", e) :
             u \in {ShopUrl, AmazonCaUrl},
             e \in {"Connection refused", "Invalid URL"}}

InitOutcomes ==
    \E w \in OutcomeWorlds : Fresh([r \in Reqs |-> IF r = 1 THEN w ELSE Idle])

\* Pages whose weight or dimensions are in the product name only.
NamedPages ==
    {Page(ShopUrl, 200, <<"html">>, [EmptyDoc EXCEPT !.nameEls = <<n>>]) :
        n \in {<<"Hand", "Soap", "16", "fl", "oz">>, <<"Rug", "10", "x", "5">>}}

\* Every slot has a request; the server runs them in any interleaving.
InitConc == \E w \in [Reqs -> NamedPages] : Fresh(w)

ConcSpec == InitConc /\ [][Next]_vars

\* One response, reached from its own URL and from a short link to it.
RedirectedPages ==
    {[Page(AmazonCaUrl, 200, <<"html">>, RichDoc) EXCEPT !.url = Some(u)] :
        u \in {AmazonCaUrl, <<"https://", "a.co", "/dp/1">>}}

\* Every slot has a request, each for the same response.
InitSame == \E w \in [Reqs -> RedirectedPages] : Fresh(w)

SameSpec == InitSame /\ [][Next]_vars

\* The code of a request is sequential and each of its steps ends (the GET
\* by its timeout of 15 s at the latest): a step that can be taken is taken.
FairSpec == InitOutcomes /\ [][Next]_vars /\ WF_vars(Next)

\* ------------------------------------------------------------ the claims

\* The fields of a ProductRecord other than the blocked flag.
RecordFields ==
    {"name", "brand", "gtin", "description", "images", "price", "currency",
     "source", "weight", "dimensions"}

\* The requests for which scrape_product has returned a record.
ReturnedReqs == {r \in Reqs : outcome[r].k = "return"}

\* The requests whose GET succeeded with a status below 400.
FetchedReqs ==
    {r \in Reqs : /\ pc[r] \in {"respond", "done"} \/ parsed[r]
                  /\ web[r].fetch = "ok" /\ web[r].status < 400}

\* C1, as stated: every record scrape_product returns, on the normal, the
\* bot-block and the timeout path alike, has every ProductRecord field, the
\* blocked flag included.
C1_EveryFieldOnEveryPath ==
    \A r \in ReturnedReqs :
        RecordFields \cup {"blocked"} \subseteq DOMAIN outcome[r].v

\* C1, amended: every record scrape_product returns has name, brand, gtin,
\* description, images, price, currency, source, weight and dimensions on
\* every return path; the blocked flag is in the record of the normal and of
\* the bot-block path and is missing from the record of the timeout path.
C1_FieldsOnEveryPath ==
    \A r \in ReturnedReqs :
        /\ RecordFields \subseteq DOMAIN outcome[r].v
        /\ "blocked" \in DOMAIN outcome[r].v <=> web[r].fetch # "timeout"

\* A record of the timeout path has been returned, and it has no blocked
\* flag.
C1_Witness ==
    \E r \in ReturnedReqs :
        web[r].fetch = "timeout" /\ "blocked" \notin DOMAIN outcome[r].v

\* C2: a returned record with blocked = true has the name and price
\* sentinels, the blocked explanation as description and no images, and
\* before that return no extractor was called and the body was not parsed.
C2_BlockedRecordIsSentinel ==
    \A r \in ReturnedReqs :
        LET v == outcome[r].v
        IN  ("blocked" \in DOMAIN v /\ v.blocked = Bool(TRUE)) =>
                /\ v.name = Str(<<"Product name not found">>)
                /\ v.price = Str(<<"Price not found">>)
                /\ v.description = Str(BlockedDescription)
                /\ v.images = List(<< >>)
                /\ calls[r] = << >>
                /\ ~parsed[r]

\* A blocked record was returned for a body holding "Robot Check", with the
\* robot_check flag of debug_info set.
C2_Witness ==
    \E r \in ReturnedReqs :
        /\ "blocked" \in DOMAIN outcome[r].v
        /\ outcome[r].v.blocked = Bool(TRUE)
        /\ Contains(web[r].body, "Robot Check")
        /\ outcome[r].v.debug_info.d.robot_check = Bool(TRUE)

\* C3: for every successful response whose body holds "robot check" or
\* "captcha" in any letter case, scrape_product returns the blocked record
\* and runs no extractor.
C3_DetectionIgnoresCase ==
    \A r \in FetchedReqs :
        (\/ Contains(LowerText(web[r].body), "robot check")
         \/ Contains(LowerText(web[r].body), "captcha")) =>
            /\ calls[r] = << >>
            /\ pc[r] \in {"respond", "done"}
            /\ outcome[r].k = "return"
            /\ outcome[r].v.blocked = Bool(TRUE)

\* C4: when the fetch times out scrape_product returns, and does not raise,
\* a record with name, price, weight and dimensions.raw at their sentinels,
\* brand and gtin empty, no images, currency "USD", the timeout explanation
\* as description and no blocked key.
C4_TimeoutRecord ==
    \A r \in Reqs :
        (web[r].fetch = "timeout" /\ pc[r] \in {"respond", "done"}) =>
            /\ outcome[r].k = "return"
            /\ LET v == outcome[r].v
               IN  /\ v.name = Str(<<"Product name not found">>)
                   /\ v.price = Str(<<"Price not found">>)
                   /\ v.weight = Str(<<"Weight not found">>)
                   /\ v.dimensions.d.raw = Str(<<"Dimensions not found">>)
                   /\ v.brand = Str(<< >>)
                   /\ v.gtin = Str(<< >>)
                   /\ v.images = List(<< >>)
                   /\ v.currency = Str(<<"USD">>)
                   /\ v.description = Str(TimeoutDescription)
                   /\ "blocked" \notin DOMAIN v

\* The fetch of an amazon.ca page has timed out and the route has answered.
C4_Witness ==
    \E r \in Reqs :
        /\ web[r].fetch = "timeout"
        /\ pc[r] = "done"
        /\ UrlContains(web[r].url[1], "amazon.ca")

\* C5: in every response of the scrape operation an error key comes instead
\* of the record, never with it: a response holding record fields has no
\* error key, a response with an error key holds no record field.
C5_ErrorInsteadOfRecord ==
    \A r \in Reqs :
        pc[r] = "done" =>
            ~ /\ "error" \in DOMAIN response[r].body
              /\ DOMAIN response[r].body \cap RecordFields # {}

\* The exception scrape_product meets on a fetch or parse that fails
\* otherwise than by a timeout, none when there is no such failure.
OriginalError(r) ==
    IF web[r].fetch = "error" THEN Some(web[r].error)
    ELSE IF web[r].fetch = "ok" /\ web[r].status >= 400 THEN Some("HTTPError")
    ELSE IF web[r].fetch = "ok" /\ ~IsBlocked(web[r].body) /\ web[r].parse = "error"
         THEN Some("parser error")
    ELSE None

\* C6: a fetch or parse exception other than a timeout makes scrape_product
\* raise one wrapped failure whose message holds the text of the original
\* error; the route answers it with status 500 and a body holding only an
\* error message, and no record is returned.
C6_WrappedFailure ==
    \A r \in Reqs :
        (pc[r] \in {"respond", "done"} /\ gets[r] > 0 /\ IsSome(OriginalError(r))) =>
            /\ outcome[r].k = "raise"
            /\ Contains(outcome[r].msg, OriginalError(r)[1])
            /\ pc[r] = "done" =>
                  /\ response[r].code = 500
                  /\ DOMAIN response[r].body = {"error"}
                  /\ response[r].body.error = Str(outcome[r].msg)

\* A refused connection has been answered by the route.
C6_Witness ==
    \E r \in Reqs :
        /\ pc[r] = "done"
        /\ web[r].fetch = "error"
        /\ web[r].error = "Connection refused"
        /\ response[r].code = 500

\* C7: no failure of an extractor propagates: a page fetched, not blocked and
\* parsed always yields a record, never the wrapped failure, whatever the
\* types of its structured metadata.
C7_ExtractorsNeverRaise ==
    \A r \in Reqs : parsed[r] => outcome[r].k # "raise"

\* A text with no digit in it.
NoDigit(text) == \A i \in 1..Len(text) : text[i] \notin DigitChars

\* The page has no product name: no name element and no title.
LacksName(doc) == doc.nameEls = << >> /\ doc.title = None

\* The page has no description: no description element, and no content in
\* its description and og:description meta tags.
LacksDescription(doc) ==
    /\ doc.descEls = << >>
    /\ \A m \in {doc.metaDesc, doc.ogDesc} : IsSome(m) => m[1].content = None

\* The page has no price: no structured metadata, and no digit in any of its
\* price elements.
LacksPrice(doc) ==
    /\ doc.ld = << >>
    /\ \A i \in 1..Len(PriceElements(doc)) :
          /\ NoDigit(PriceElements(doc)[i].text)
          /\ IsSome(PriceElements(doc)[i].content) =>
                NoDigit(PriceElements(doc)[i].content[1])
    /\ IsSome(doc.priceWhole) => NoDigit(doc.priceWhole[1].siblings)
    /\ IsSome(doc.priceFraction) => NoDigit(doc.priceFraction[1])

\* The page has nothing but, at most, description and price elements.
LacksTheRest(doc) ==
    doc = [EmptyDoc EXCEPT !.descEls = doc.descEls, !.metaDesc = doc.metaDesc,
                           !.ogDesc = doc.ogDesc, !.priceEls = doc.priceEls,
                           !.priceApex = doc.priceApex,
                           !.priceWhole = doc.priceWhole,
                           !.priceFraction = doc.priceFraction]

\* C8: for every document that lacks the target attribute each extractor
\* returns exactly its sentinel: the name, description, price, weight and
\* dimensions "not found" values, an empty brand and gtin, no images; a
\* description meta tag without content and a price element without digits
\* are such documents.
C8_SentinelWhenAbsent ==
    \A r \in Reqs :
        LET doc == web[r].doc
            v == loc[r]
        IN  /\ (IsSome(v.name) /\ LacksName(doc)) =>
                  v.name[1] = <<"Product name not found">>
            /\ (IsSome(v.description) /\ LacksDescription(doc)) =>
                  v.description[1] = <<"Description not found">>
            /\ (IsSome(v.price) /\ LacksPrice(doc)) =>
                  v.price[1] = <<"Price not found">>
            /\ (IsSome(v.brand) /\ LacksTheRest(doc)) => v.brand[1] = Str(<< >>)
            /\ (IsSome(v.gtin) /\ LacksTheRest(doc)) => v.gtin[1] = << >>
            /\ (IsSome(v.images) /\ LacksTheRest(doc)) => v.images[1] = << >>
            /\ (IsSome(v.weight) /\ LacksTheRest(doc)) =>
                  v.weight[1] = <<"Weight not found">>
            /\ (IsSome(v.dimensions) /\ LacksTheRest(doc)) =>
                  v.dimensions[1] =
                      Dict([raw |-> Str(<<"Dimensions not found">>),
                            length |-> Null, width |-> Null, height |-> Null,
                            unit |-> Null])

\* C9: the list extract_images returns has no duplicate, no URL ending in
\* ".gif", at most 10 entries and absolute URLs only, for the URLs of the
\* selectors and for those of the structured metadata alike.
C9_ImagesClean ==
    \A r \in Reqs :
        IsSome(loc[r].images) =>
            LET images == loc[r].images[1]
            IN  /\ Len(images) <= 10
                /\ \A i, j \in 1..Len(images) : images[i] = images[j] => i = j
                /\ \A i \in 1..Len(images) :
                      /\ IsStr(images[i])
                      /\ ~EndsWith(images[i].s, ".gif")
                      /\ IsAbsolute(images[i].s)

\* \d+\.\d{2}: digits, a point, two digits.
IsTwoDecimal(text) ==
    /\ Len(text) >= 4
    /\ text[Len(text) - 2] = "."
    /\ \A i \in 1..Len(text) : i # Len(text) - 2 => text[i] \in DigitChars

\* C10: a price extract_price returns that is not the sentinel is a string
\* of digits with exactly two fractional digits, whichever strategy made it:
\* structured metadata, meta content, element text or the whole/fraction
\* fallback.
C10_PriceTwoDecimals ==
    \A r \in Reqs :
        (IsSome(loc[r].price) /\ loc[r].price[1] # <<"Price not found">>) =>
            IsTwoDecimal(loc[r].price[1])

\* C11: a URL on a .ca retailer domain (amazon.ca, walmart.ca, ebay.ca)
\* yields the currency "CAD" and a URL on a .co.uk retailer domain yields
\* "GBP", whatever priceCurrency meta tag or structured metadata the page has.
C11_DomainDecidesCurrency ==
    \A r \in Reqs :
        IsSome(loc[r].currency) =>
            /\ (\E d \in {"amazon.ca", "walmart.ca", "ebay.ca"} :
                    UrlContains(url[r], d)) => loc[r].currency[1] = Str(<<"CAD">>)
            /\ UrlContains(url[r], "amazon.co.uk") =>
                    loc[r].currency[1] = Str(<<"GBP">>)

\* No structured metadata, selector, detail table or specification region
\* of the page yields a brand.
NoBrandOnPage(doc) ==
    /\ BrandFromScripts(doc.ld) = None
    /\ BrandFromSelectors(doc.brandEls) = None
    /\ BrandFromDetails(doc.rows \o doc.facts) = None
    /\ BrandFromSpecs(doc.specs) = None

NoPageWeight ==
    {r \in ReturnedReqs :
        /\ Len(calls[r]) = 9
        /\ WeightFromSelectors(web[r].doc.weightEls \o DetailRegions(web[r].doc)) = None}

\* The weight the first of pats that matches the name of the record gives,
\* "Weight not found" when none matches.
WeightOfName(r, pats) ==
    IF IsSome(FirstWeight(outcome[r].v.name.s, pats))
    THEN Str(FirstWeight(outcome[r].v.name.s, pats)[1])
    ELSE Str(<<"Weight not found">>)

\* C13, as stated: when the page regions yield no weight, the weight of the
\* record is that of the first of the five patterns (fluid ounces, ounces,
\* ml, grams, pounds) that matches the product name, and "Weight not found"
\* when none of them matches.
C13_FivePatternBackfill ==
    \A r \in NoPageWeight : outcome[r].v.weight = WeightOfName(r, backfill_patterns)

\* C13, amended: when the page regions yield no weight, the weight of the
\* record is that of the first of the seven title patterns (fluid ounces,
\* ounces, ml, liters, grams, kilograms, pounds, in this order) that matches
\* the product name, and "Weight not found" when none of them matches.
C13_TitleWeight ==
    \A r \in NoPageWeight : outcome[r].v.weight = WeightOfName(r, title_patterns)

\* "Hand Soap 16 fl oz" on a page without weight has given "16 fl oz".
C13_Witness ==
    \E r \in NoPageWeight :
        /\ outcome[r].v.name = Str(<<"Hand", "Soap", "16", "fl", "oz">>)
        /\ outcome[r].v.weight = Str(<<"16", "fl", "oz">>)

\* The outcome of a call is one of the four terminal ones: the full record,
\* the blocked record, the timeout record or the raised failure.
IsTerminal(o) ==
    \/ o.k = "raise"
    \/ o.k = "return" /\ "blocked" \in DOMAIN o.v /\ o.v.blocked \in {Bool(FALSE), Bool(TRUE)}
    \/ o.k = "return" /\ "blocked" \notin DOMAIN o.v /\ o.v.description = Str(TimeoutDescription)

\* C14: every scrape call issues exactly one HTTP GET, never a second one,
\* and then reaches exactly one terminal outcome (a full, a blocked or a
\* timeout record, or the raised failure), which it keeps.
C14_OneGetOneOutcome ==
    /\ [](\A r \in Reqs :
            /\ gets[r] <= 1
            /\ outcome[r] # NoOutcome => gets[r] = 1 /\ IsTerminal(outcome[r]))
    /\ [][\A r \in Reqs : outcome[r] # NoOutcome => outcome'[r] = outcome[r]]_vars
    /\ \A r \in Reqs : (pc[r] = "fetch") ~> (outcome[r] # NoOutcome /\ pc[r] = "done")

\* A call has ended in a full record after its one GET.
C14_Witness ==
    \E r \in Reqs :
        /\ pc[r] = "done" /\ gets[r] = 1
        /\ outcome[r].k = "return" /\ Len(calls[r]) = 9

\* The scraper instance of a request after its own extract_name.
OwnInstance(r) ==
    [inst[r] EXCEPT !.last_product_name = Some(extract_name(web[r].doc))]

\* C15: concurrent requests do not interfere: the product name retained on
\* the scraper instance of a request is the name extracted in that request,
\* and the weight and dimensions of the request are those its own name gives,
\* under every interleaving of the requests.
C15_RequestsIndependent ==
    \A r \in Reqs :
        /\ IsSome(loc[r].name) => inst[r] = OwnInstance(r)
        /\ IsSome(loc[r].weight) =>
              loc[r].weight[1] = extract_weight(web[r].doc, OwnInstance(r))
        /\ IsSome(loc[r].dimensions) =>
              loc[r].dimensions[1] = extract_dimensions(web[r].doc, OwnInstance(r))

\* One request has taken its weight from its name while another request,
\* for a page with another name, is between its extract_name and its
\* extract_weight.
C15_Witness ==
    \E r, q \in Reqs :
        /\ r # q
        /\ IsSome(loc[r].weight) /\ loc[r].weight[1] = <<"16", "fl", "oz">>
        /\ IsSome(loc[q].name) /\ loc[q].name[1] # loc[r].name[1]
        /\ ~IsSome(loc[q].weight)

\* Two requests received the same final URL, status and body.
SameResponse(r, q) ==
    /\ web[r].fetch = "ok" /\ web[q].fetch = "ok"
    /\ web[r].final = web[q].final
    /\ web[r].status = web[q].status
    /\ web[r].body = web[q].body
    /\ web[r].parse = web[q].parse
    /\ web[r].doc = web[q].doc

\* C16: two scrape calls that receive the same final URL, status and body
\* end in the same outcome, whatever user agent each drew, whatever URL each
\* was asked for and however the calls are ordered.
C16_Deterministic ==
    \A r, q \in Reqs :
        (outcome[r] # NoOutcome /\ outcome[q] # NoOutcome /\ SameResponse(r, q)) =>
            outcome[r] = outcome[q]

\* Two calls with different user agents, one asked for a short link, have
\* both returned their record.
C16_Witness ==
    \E r, q \in Reqs :
        /\ SameResponse(r, q)
        /\ inst[r].user_agent # inst[q].user_agent
        /\ web[r].url # web[q].url
        /\ outcome[r].k = "return" /\ outcome[q].k = "return"
        /\ Len(calls[r]) = 9 /\ Len(calls[q]) = 9

\* The signature occurs in the body in some mix of upper and lower case.
PresentAnyCase(body, signature) ==
    \E i \in 1..Len(body) : Lower(body[i]) = signature

\* C17: a returned record has debug_info exactly when its blocked field is
\* true, and then debug_info holds the status code, the body length and the
\* flags robot_check and captcha, each the case-insensitive presence of its
\* signature in the body.
C17_DebugInfoIffBlocked ==
    \A r \in ReturnedReqs :
        LET v == outcome[r].v IN
        /\ ("debug_info" \in DOMAIN v) <=>
               ("blocked" \in DOMAIN v /\ v.blocked = Bool(TRUE))
        /\ "debug_info" \in DOMAIN v =>
               v.debug_info =
                   Dict([status |-> Num(web[r].status, << >>),
                         response_length |-> Num(Len(web[r].body), << >>),
                         robot_check |->
                             Bool(PresentAnyCase(web[r].body, "robot check")),
                         captcha |-> Bool(PresentAnyCase(web[r].body, "captcha"))])

\* A blocked record whose robot_check flag is set for a body that spells the
\* signature with capitals, and whose captcha flag is clear.
C17_Witness ==
    \E r \in ReturnedReqs :
        /\ "debug_info" \in DOMAIN outcome[r].v
        /\ outcome[r].v.blocked = Bool(TRUE)
        /\ Contains(web[r].body, "Robot Check")
        /\ outcome[r].v.debug_info.d.robot_check = Bool(TRUE)
        /\ outcome[r].v.debug_info.d.captcha = Bool(FALSE)
        /\ outcome[r].v.debug_info.d.response_length = Num(2, << >>)

\* The requests whose GET was answered with an HTTP error status.
ErrorStatusReqs ==
    {r \in Reqs : gets[r] > 0 /\ web[r].fetch = "ok" /\ web[r].status >= 400}

\* C18: a response with an HTTP error status ends the scrape call in the
\* raised scraping failure and never in a record, also when its body carries
\* a bot-block signature: block detection is never reached.
C18_ErrorStatusIsFatal ==
    \A r \in ErrorStatusReqs :
        /\ outcome[r].k = "raise"
        /\ outcome[r].msg[1] = "Failed to scrape URL: "
        /\ debug_info[r] = None
        /\ ~parsed[r]
        /\ calls[r] = << >>

\* A 404 response whose body would have been detected as a block page has
\* been answered with the failure.
C18_Witness ==
    \E r \in ErrorStatusReqs :
        /\ IsBlocked(web[r].body)
        /\ outcome[r].k = "raise"
        /\ pc[r] = "done"

\* The order in which scrape_product calls the extractors.
ExtractorOrder ==
    <<"name", "price", "currency", "brand", "gtin", "description", "images",
      "weight", "dimensions">>

\* The order of the extractors as the specification lists it.
ListedOrder ==
    <<"name", "brand", "gtin", "description", "images", "price", "currency",
      "weight", "dimensions">>

NameConsumers == {"brand", "weight", "dimensions"}

\* The calls made so far for r are the first calls of order, every call has
\* been made once a product record is assembled, and no consumer of the name
\* is called before the name is extracted and stored.
CallsFollow(r, order) ==
    /\ Len(calls[r]) <= Len(order)
    /\ calls[r] = Take(order, Len(calls[r]))
    /\ (pc[r] = "assemble" \/ (outcome[r].k = "return" /\ parsed[r])) =>
           calls[r] = order
    /\ (\E i \in 1..Len(calls[r]) : calls[r][i] \in NameConsumers) =>
           /\ calls[r][1] = "name"
           /\ IsSome(loc[r].name)
           /\ inst[r].last_product_name = loc[r].name

\* C19 as stated: on a non-blocked page the extractors are invoked in the
\* order name, brand, gtin, description, images, price, currency, weight,
\* dimensions, the name before every extractor that consumes it.
C19_ListedOrder == \A r \in Reqs : CallsFollow(r, ListedOrder)

\* C19 as amended: on a non-blocked page the extractors are invoked in the
\* order name, price, currency, brand, gtin, description, images, weight,
\* dimensions, the name before every extractor that consumes it.
C19_CallOrder == \A r \in Reqs : CallsFollow(r, ExtractorOrder)

\* A product record has been returned after all nine calls.
C19_Witness ==
    \E r \in ReturnedReqs :
        /\ parsed[r]
        /\ calls[r] = ExtractorOrder
        /\ outcome[r].v.blocked = Bool(FALSE)
        /\ outcome[r].v.price # Str(PriceNotFound)

\* The metadata objects of a page in document order: the object of a script,
\* or the objects listed in it.
RECURSIVE MetadataObjects(_)
MetadataObjects(scripts) ==
    IF scripts = << >> THEN << >>
    ELSE (IF ~IsSome(Head(scripts)) THEN << >>
          ELSE IF IsDict(Head(scripts)[1]) THEN <<Head(scripts)[1]>>
          ELSE IF IsList(Head(scripts)[1])
               THEN SelectSeq(Head(scripts)[1].l, IsDict)
          ELSE << >>)
         \o MetadataObjects(Tail(scripts))

\* The brand a metadata object states: a plain string, or the name of a
\* nested object.
StatedBrand(obj) ==
    IF ~Has(obj, "brand") THEN None
    ELSE IF IsStr(obj.d["brand"]) THEN Some(obj.d["brand"])
    ELSE IF IsDict(obj.d["brand"]) /\ Has(obj.d["brand"], "name")
         THEN Some(obj.d["brand"].d["name"])
    ELSE None

\* The GTIN a metadata object states, at top level or in its nested offer.
StatedGtin(obj) ==
    IF IsSome(GtinOfObject(obj)) THEN GtinOfObject(obj)
    ELSE IF Has(obj, "offers") /\ IsDict(obj.d["offers"])
         THEN GtinOfObject(obj.d["offers"])
    ELSE None

\* The price a metadata object states: offers.price, or its own price.
StatedPrice(obj) ==
    IF Has(obj, "offers") /\ IsDict(obj.d["offers"]) /\ Has(obj.d["offers"], "price")
    THEN Some(WithDecimals(PyStr(obj.d["offers"].d["price"])))
    ELSE IF Has(obj, "price") THEN Some(WithDecimals(PyStr(obj.d["price"])))
    ELSE None

\* What the first of the objects that states a value states.
RECURSIVE FirstStated(_, _)
FirstStated(Stated(_), objs) ==
    IF objs = << >> THEN None
    ELSE IF IsSome(Stated(Head(objs))) THEN Stated(Head(objs))
    ELSE FirstStated(Stated, Tail(objs))

\* A selector or regex strategy reaches a value of the field on the page.
BrandReachable(doc) ==
    \/ IsSome(BrandFromSelectors(doc.brandEls))
    \/ IsSome(BrandFromDetails(doc.rows \o doc.facts))
    \/ IsSome(BrandFromSpecs(doc.specs))

GtinReachable(doc) ==
    \/ IsSome(GtinFromSelectors(doc.gtinEls \o doc.facts
                                  \o (IF doc.rows = << >> THEN << >>
                                      ELSE <<Concat(doc.rows)>>)
                                  \o doc.bullets))
    \/ IsSome(GtinFromBullets(doc.bullets))

PriceReachable(doc) ==
    \/ IsSome(PriceFromSelectors(PriceElements(doc)))
    \/ IsSome(PriceFromWhole(doc))

\* The structured metadata of the page of r states a value for the field, a
\* selector or regex strategy reaches one, and the extractor of the field has
\* returned a value other than the stated one.
BrandOverridden(r) ==
    /\ IsSome(loc[r].brand)
    /\ BrandReachable(web[r].doc)
    /\ IsSome(FirstStated(StatedBrand, MetadataObjects(web[r].doc.ld)))
    /\ loc[r].brand # FirstStated(StatedBrand, MetadataObjects(web[r].doc.ld))

GtinOverridden(r) ==
    /\ IsSome(loc[r].gtin)
    /\ GtinReachable(web[r].doc)
    /\ IsSome(FirstStated(StatedGtin, MetadataObjects(web[r].doc.ld)))
    /\ loc[r].gtin # FirstStated(StatedGtin, MetadataObjects(web[r].doc.ld))

PriceOverridden(r) ==
    /\ IsSome(loc[r].price)
    /\ PriceReachable(web[r].doc)
    /\ IsSome(FirstStated(StatedPrice, MetadataObjects(web[r].doc.ld)))
    /\ loc[r].price # FirstStated(StatedPrice, MetadataObjects(web[r].doc.ld))

\* C20: for brand, GTIN and price, a value stated by the structured metadata
\* of the page is the value the extractor returns, whatever a selector or
\* regex strategy could reach; so a later strategy decides only when the
\* metadata states nothing.
C20_StructuredValueWins ==
    \A r \in Reqs :
        ~BrandOverridden(r) /\ ~GtinOverridden(r) /\ ~PriceOverridden(r)

\* The currencies of the entries of the primary table whose domain occurs in
\* the URL.
PrimaryCurrencies(u) ==
    {Str(<<amazon_currencies[i][2]>>) : i \in
        {j \in 1..Len(amazon_currencies) :
            \E needle \in amazon_currencies[j][1] : UrlContains(u, needle)}}

\* The value of the first source of the currency that applies to the page.
\* The value of the primary table is left to the table; the others are one
\* value each.
FirstCurrencySource(doc, u) ==
    IF PrimaryCurrencies(u) # {} THEN PrimaryCurrencies(u)
    ELSE IF doc.metaCurrency # None
         THEN {Str(IF doc.metaCurrency[1].content # None
                   THEN doc.metaCurrency[1].content[1] ELSE <<"USD">>)}
    ELSE IF CurrencyFromScripts(doc.ld) # None THEN {CurrencyFromScripts(doc.ld)[1]}
    ELSE IF UrlContains(u, "walmart.ca") \/ UrlContains(u, "ebay.ca")
         THEN {Str(<<"CAD">>)}
    ELSE {Str(<<"USD">>)}

\* C21: the currency is the value of the first source that applies, in the
\* order primary domain table, priceCurrency meta tag, offers.priceCurrency
\* of the structured metadata, secondary domain table (walmart.ca, ebay.ca),
\* "USD".
C21_CurrencyPrecedence ==
    \A r \in Reqs :
        IsSome(loc[r].currency) =>
            loc[r].currency[1] \in FirstCurrencySource(web[r].doc, url[r])

\* On walmart.ca a page without the meta tag whose structured metadata says
\* GBP has given GBP: the third source decided before the fourth.
C21_Witness ==
    \E r \in Reqs :
        /\ IsSome(loc[r].currency)
        /\ UrlContains(url[r], "walmart.ca")
        /\ web[r].doc.metaCurrency = None
        /\ CurrencyFromScripts(web[r].doc.ld) = Some(Str(<<"GBP">>))
        /\ loc[r].currency[1] = Str(<<"GBP">>)

\* The retailer hosts of the primary domain table, each with the currency of
\* its own entry.
ListedCurrency ==
    [host \in {"www.amazon.ca", "www.amazon.com", "www.amazon.co.uk",
               "www.amazon.de", "www.amazon.fr", "www.amazon.es", "www.amazon.it",
               "www.amazon.co.jp", "www.amazon.in", "www.amazon.com.au"} |->
        CASE host = "www.amazon.ca" -> "CAD"
          [] host = "www.amazon.com" -> "USD"
          [] host = "www.amazon.co.uk" -> "GBP"
          [] host \in {"www.amazon.de", "www.amazon.fr", "www.amazon.es",
                       "www.amazon.it"} -> "EUR"
          [] host = "www.amazon.co.jp" -> "JPY"
          [] host = "www.amazon.in" -> "INR"
          [] host = "www.amazon.com.au" -> "AUD"]

\* The currency extracted for a URL on host is the currency of its entry.
EntryEffective(host) ==
    \A r \in Reqs :
        (IsSome(loc[r].currency) /\ url[r][2] = host) =>
            loc[r].currency[1] = Str(<<ListedCurrency[host]>>)

\* C22: every entry of the primary domain table is effective: a URL on a
\* listed retailer domain yields the currency of that domain's own entry, no
\* entry being shadowed by an earlier one.
C22_EveryEntryEffective == \A host \in DOMAIN ListedCurrency : EntryEffective(host)

\* The requests whose price was extracted from the text of the page's first
\* price element, the structured metadata stating no price.
PricedFromText(text) ==
    {r \in Reqs : /\ IsSome(loc[r].price)
                  /\ PriceFromScripts(web[r].doc.ld) = None
                  /\ PriceElements(web[r].doc) # << >>
                  /\ PriceElements(web[r].doc)[1] = Span(text)}

\* Element text "$1,299" yields "1299.00".
ThousandsNormalized ==
    \A r \in PricedFromText(<<"$", "1", ",", "2", "9", "9">>) :
        loc[r].price[1] = <<"1", "2", "9", "9", ".", "0", "0">>

\* Element text "19.99" yields "19.99".
DecimalsKept ==
    \A r \in PricedFromText(<<"1", "9", ".", "9", "9">>) :
        loc[r].price[1] = <<"1", "9", ".", "9", "9">>

\* Price elements without a digit yield the sentinel.
NoDigitsGiveSentinel ==
    \A r \in Reqs :
        (IsSome(loc[r].price) /\ LacksPrice(web[r].doc)) =>
            loc[r].price[1] = PriceNotFound

\* C23: element text "$1,299" yields "1299.00", element text "19.99" yields
\* "19.99", and a page whose price elements contain no digits yields
\* "Price not found".
C23_PriceNormalization ==
    ThousandsNormalized /\ DecimalsKept /\ NoDigitsGiveSentinel

\* A decimal number with four or more integer digits and no separator.
IsLongDecimal(t) ==
    \E k \in 5..Len(t) - 1 :
        /\ t[k] = "."
        /\ \A i \in 1..Len(t) : i # k => t[i] \in DigitChars

\* The requests whose price came from a first price element that is a
\* currency symbol followed by such a number.
PricedFromLongDecimal ==
    {r \in Reqs : /\ IsSome(loc[r].price)
                  /\ PriceFromScripts(web[r].doc.ld) = None
                  /\ PriceElements(web[r].doc) # << >>
                  /\ PriceElements(web[r].doc)[1].tag = "span"
                  /\ Len(PriceElements(web[r].doc)[1].text) > 1
                  /\ PriceElements(web[r].doc)[1].text[1] \in SymbolChars
                  /\ IsLongDecimal(Tail(PriceElements(web[r].doc)[1].text))}

\* C24: for element text that is a currency symbol followed by a decimal
\* number with four or more integer digits and no thousands separators, the
\* returned price is that number, not a prefix of its digits.
C24_LongPriceKept ==
    \A r \in PricedFromLongDecimal :
        loc[r].price[1] = Tail(PriceElements(web[r].doc)[1].text)

\* The first of the regions in which a dimension pattern matches.
RECURSIVE FirstDimRegion(_)
FirstDimRegion(els) ==
    IF els = << >> THEN None
    ELSE IF FirstDimMatch(Head(els), 1) # << >> THEN Some(Head(els))
    ELSE FirstDimRegion(Tail(els))

\* The requests whose dimensions were extracted from a page region.
MeasuredReqs ==
    {r \in Reqs : /\ IsSome(loc[r].dimensions)
                  /\ IsSome(FirstDimRegion(DetailRegions(web[r].doc)
                                             \o web[r].doc.dimEls))}

\* The structure the match in the region is to give: its text, its two or
\* three numbers, and its unit when that is a recognized one, "in" otherwise.
DimensionsDue(text) ==
    LET k == FirstDimMatch(text, 1)[1]
        m == FirstDimMatch(text, 1)[2]
        unit == IF dim_groups[k] = 2 THEN << >>
                ELSE TakenText(Group(text, m, dim_groups[k]))
    IN  Dict([raw |-> Str(TakenText(Group0(text, m))),
              length |-> Float(Group(text, m, 1)[1]),
              width |-> Float(Group(text, m, 2)[1]),
              height |-> IF k <= 4 THEN Float(Group(text, m, 3)[1]) ELSE Null,
              unit |-> IF unit # << >> /\ unit[1] \in known_units
                       THEN Str(unit) ELSE Str(<<"in">>)])

\* C25: whenever a pattern matches in a page region, the structure returned
\* has the matched text as raw, the parsed length and width, the height when
\* the pattern has a third number, and a unit that is never null: the matched
\* unit when recognized, "in" otherwise.
C25_MatchFillsStructure ==
    \A r \in MeasuredReqs :
        loc[r].dimensions[1] =
            DimensionsDue(FirstDimRegion(DetailRegions(web[r].doc)
                                           \o web[r].doc.dimEls)[1])

\* The number of characters of a description: the two fixed texts are one
\* token each, every other description is a sequence of characters.
DescriptionChars(description) ==
    IF description \in {DescriptionNotFound, IframePlaceholder}
    THEN Len(description[1])
    ELSE Len(description)

\* C26: the description returned has at most 500 characters, whichever
\* branch produced it: bullet list, frame placeholder, element text, meta
\* description, Open-Graph description or sentinel.
C26_DescriptionAtMost500 ==
    \A r \in Reqs :
        IsSome(loc[r].description) => DescriptionChars(loc[r].description[1]) <= 500

\* The text of an element of 501 characters has been cut to 500.
C26_Witness ==
    \E r \in Reqs :
        /\ IsSome(loc[r].description)
        /\ web[r].doc.descEls # << >>
        /\ Len(web[r].doc.descEls[1].text) = 501
        /\ Len(loc[r].description[1]) = 500

\* The sequence in which extract_images collects the images of a page: those
\* of the selectors, then the image values of the structured metadata.
Collected(doc, base_url) ==
    CollectImages(<< >>, doc.imgs, base_url, UrlContains(base_url, "amazon"))
       \o ImagesFromScripts(doc.ld)

\* The positions of a sequence at which an item occurs for the first time.
FirstSeen(seq) == {i \in 1..Len(seq) : \A j \in 1..(i - 1) : seq[j] # seq[i]}

\* The list holds the items of the first positions of seq, in their order,
\* as many as there are up to 10.
IsFirstTenDistinct(list, seq) ==
    /\ Len(list) = Min(10, Cardinality(FirstSeen(seq)))
    /\ \A k \in 1..Len(list) :
          \E i \in FirstSeen(seq) :
              /\ Cardinality({j \in FirstSeen(seq) : j <= i}) = k
              /\ list[k] = seq[i]

\* C27: the list extract_images returns is the first 10 distinct items of
\* the collection sequence, each at the place of its first occurrence.
C27_FirstSeenOrder ==
    \A r \in Reqs :
        IsSome(loc[r].images) =>
            IsFirstTenDistinct(loc[r].images[1], Collected(web[r].doc, url[r]))

\* A list has been returned for a collection in which an image recurs after
\* another one.
C27_Witness ==
    \E r \in Reqs :
        /\ IsSome(loc[r].images)
        /\ LET seq == Collected(web[r].doc, url[r])
           IN  /\ Len(seq) = 3 /\ seq[1] = seq[3] /\ seq[1] # seq[2]
               /\ loc[r].images[1] = <<seq[1], seq[2]>>

\* A brand value that is to be rejected: 50 characters or more, or one of
\* the two placeholder words.
Rejectable(brand) ==
    IsStr(brand) /\ (CharLen(brand.s) >= 50 \/ brand.s \in {<<"Unknown">>, <<"N/A">>})

\* C28: extract_brand never returns a value of 50 or more characters, nor
\* "Unknown", nor "N/A", whichever strategy produced the candidate.
C28_BrandNeverRejectable ==
    \A r \in Reqs : IsSome(loc[r].brand) => ~Rejectable(loc[r].brand[1])

\* The submission has got past the credentials check and the price.
Submitted == sub.pc # "idle" /\ sub.form.airtable /\ FloatCents(sub.form.price) # None

\* The files of the form that were selected: those with a filename.
SelectedPhotos == {i \in 1..Len(sub.form.photos) : sub.form.photos[i] # "unnamed"}

\* The selected files whose upload succeeded.
UploadedPhotos ==
    {i \in SelectedPhotos : sub.form.cloudinary /\ sub.form.photos[i] = "ok"}

\* The URLs of the successful uploads among the files from i on, in order.
RECURSIVE UploadedFrom(_)
UploadedFrom(i) ==
    IF i > Len(sub.form.photos) THEN << >>
    ELSE (IF i \in UploadedPhotos THEN <<[url |-> secure_url(i)]>> ELSE << >>)
            \o UploadedFrom(i + 1)

\* The record is posted exactly once, whatever became of the uploads.
PostedOnce == (Submitted /\ sub.pc = "done") => Len(sub.posts) = 1

\* The attachment list of the posted record holds the URLs of the successful
\* uploads in order.
AttachmentsAreUploads ==
    (Submitted /\ sub.pc = "done") =>
        \A n \in 1..Len(sub.posts) :
            IF UploadedPhotos = {}
            THEN "Inspection Photos" \notin DOMAIN sub.posts[n]
            ELSE /\ "Inspection Photos" \in DOMAIN sub.posts[n]
                 /\ sub.posts[n]["Inspection Photos"] = UploadedFrom(1)

\* photos_uploaded of the response is the number of successful uploads.
CountIsUploads ==
    (Submitted /\ sub.pc = "done" /\ sub.form.store = 200) =>
        sub.response.photos_uploaded = Cardinality(UploadedPhotos)

\* When a selected photo was not uploaded the response says so.
FailuresReported ==
    (Submitted /\ sub.pc = "done" /\ sub.form.store = 200
        /\ SelectedPhotos # UploadedPhotos) =>
        sub.response.message.text =
            "Item submitted successfully! Note: {n} photos selected but not uploaded (check Cloudinary config)."

\* C29: for every sequence of upload outcomes the record is posted exactly
\* once, its inspection-photos list holds the URLs of the successful uploads
\* in order, photos_uploaded is their number, and photos selected but not
\* uploaded are reported in the response.
C29_BestEffortSubmission ==
    PostedOnce /\ AttachmentsAreUploads /\ CountIsUploads /\ FailuresReported

\* The 4more price of every posted record follows the rule: eBay first,
\* then USD, else the price.
C30_Rule(n) ==
    sub.posts[n]["4more Price"] =
        sub.posts[n]["Unit Retail Price"]
           * (CASE sub.form.website = "ebay" -> 12
                [] sub.form.website # "ebay" /\ sub.form.currency = "USD" -> 15
                [] OTHER -> 10)

\* C30: the 4more price sent is the price times 1.2 when the website is
\* eBay, whatever the currency; otherwise the price times 1.5 when the
\* currency is USD; otherwise the price.  Prices are in cents, 4more prices
\* in tenths of a cent.
C30_FourMorePrice ==
    sub.pc # "idle" => \A n \in 1..Len(sub.posts) : C30_Rule(n)

\* A record of an eBay item priced in USD has been posted with 1.2 times
\* its price.
C30_Witness ==
    /\ sub.pc = "done"
    /\ Len(sub.posts) = 1
    /\ sub.form.website = "ebay" /\ sub.form.currency = "USD"
    /\ sub.posts[1]["Unit Retail Price"] = 1999
    /\ sub.posts[1]["4more Price"] = 23988

====
